---- MODULE Spec2Model ----
(***************************************************************************)
(* State-machine model of the Shopline (Platform A) / Buy with Prime       *)
(* (Platform B) catalog synchronisation lambdas:                           *)
(*   - the scheduled batch sync handler            (src/unnamed/part_001)  *)
(*   - the product webhook handler   (lambda/product/crud.mjs, 181-336)    *)
(*   - the state-keyed install flow      (code/shoplineinstall/index.mjs)  *)
(*   - the signed Shopline install / callback handlers and the PKCE        *)
(*     Buy-with-Prime launch / install handlers                            *)
(*                                    (lambda/auth/shopline/callback.mjs)  *)
(* A handler that runs concurrently with another is split at its awaits,   *)
(* so that invocations interleave the way concurrent lambdas do; a handler *)
(* whose intermediate states no other handler reads is one step.           *)
(***************************************************************************)
EXTENDS Integers, Sequences, FiniteSets, TLC

VARIABLES
  installationTable, \* INSTALLATION_TABLE: handle -> item or NoItem
  bwpTokenStore,     \* BWP_TOKEN_STORE_TABLE: installation id -> item or NoItem
  catA,              \* Platform A catalog: handle -> product id -> product or Absent
  catB,              \* Platform B catalog: installation -> product id -> product or Absent
  faulty,            \* handles whose platform calls currently fail
  envChanges,        \* number of platform-side edits made so far
  bPc, bStores, bI, bA, bB, bJ, bResp,   \* batch handler invocation
  bCalls, pushLog,                        \* calls / pushes issued by the current batch run
  bLog,                                   \* per-product lines the current batch run has logged
  catB0, bUndisturbed, quiet, bAfterQuiet, prevPushes, \* history of the runs
  wPc, wReq, wInst, wA, wB, wResp,       \* webhook handler invocation
  wCalls, wPushes, wFresh, wStartB, wReplay, wSeenB, wPrevResp, wPrevPushes,
  now,               \* Date.now(), in milliseconds
  installStateTable, \* INSTALL_STATE_TABLE: state -> item or NoItem
  storesTable,       \* STORES_TABLE: shop -> item or NoItem
  issuedStates,      \* values generateState() has returned so far
  hResp,             \* last response of the install handler, with the shop it was asked for
  cb,                \* handleCallback invocations: call id -> position and locals
  succeeded,         \* states for which a handleCallback call has returned 302
  exchangeFailed,    \* states for which a handleCallback call failed at the token request
  bwpStateTable,     \* BWP_STATE_TABLE: state -> item or NoItem
  pkIssued,          \* states handleBWPLaunch has drawn so far
  lResp,             \* last outcome of handleBWPLaunch
  pk,                \* the handleBWPInstall invocation: position and locals
  pkSucceeded,       \* states for which a handleBWPInstall call has returned 200
  getCommandBound,   \* whether GetCommand is bound where handleBWPInstall runs
  gr,                \* the last answer of the endpoints behind validateVerificationToken
  shoplineSecret,    \* the secret at SHOPLINE_CREDENTIALS_ARN, parsed
  usedIds,           \* values generateUniqueId() has returned so far
  hm,                \* signed install / callback invocations: call id -> position and locals
  sg,                \* a request on its way from the signer to verifySign
  sw,                \* the invocation of the token refresh handler: position and locals
  refreshFailures,   \* handle -> refresh calls that have failed in a row
  aCall,             \* the last request to Platform A: its handle and Authorization header
  ans                \* the last invocation of the auth router or the product handler, and its end

syncVars == <<installationTable, bwpTokenStore, catA, catB, faulty, envChanges,
              bPc, bStores, bI, bA, bB, bJ, bResp, bCalls, pushLog, bLog,
              catB0, bUndisturbed, quiet, bAfterQuiet, prevPushes,
              wPc, wReq, wInst, wA, wB, wResp, wCalls, wPushes, wFresh, wStartB, wReplay,
              wSeenB, wPrevResp, wPrevPushes>>

batchVars == <<bPc, bStores, bI, bA, bB, bJ, bResp, bCalls, pushLog, bLog,
               catB0, bUndisturbed, bAfterQuiet, prevPushes>>
webhookVars == <<wPc, wReq, wInst, wA, wB, wResp, wCalls, wPushes, wFresh, wStartB, wReplay,
                 wSeenB, wPrevResp, wPrevPushes>>
runVars == <<catA, catB, faulty, envChanges, quiet, batchVars, webhookVars>>

installVars == <<installStateTable, storesTable, issuedStates, hResp, cb, succeeded,
                 exchangeFailed>>
pkceVars == <<bwpStateTable, pkIssued, lResp, pk, pkSucceeded, getCommandBound, gr>>
hmacVars == <<shoplineSecret, usedIds, hm>>
sweepVars == <<sw, refreshFailures>>
otherVars == <<sg, sweepVars, aCall, ans>>
authVars == <<now, installVars, pkceVars, hmacVars, otherVars>>

vars == <<syncVars, authVars>>

----------------------------------------------------------------------------
(* Bounds and value domains *)

\* Platform-side edits (by the merchant) allowed in one behaviour.
MaxEnvChanges == 1
\* Product slots that start out different on the two platforms.
MaxDivergent == 1
\* Products that exist on Platform B only, in overlapping runs.
MaxExtras == 1

Handles == {"shop-1", "shop-2"}
\* A handle with no item in the installation table.
UnknownHandle == "shop-9"
PidSeq == <<"p1", "p2">>
Pids == {PidSeq[i] : i \in 1..Len(PidSeq)}

\* Missing values (a missing table item, a missing product, undefined).
NoItem == [nil |-> "NoItem"]
Absent == [nil |-> "Absent"]
None == [nil |-> "None"]
\* A store item without bwpInstallationId.
NoInst == "none"

\* The installation linked to a handle; distinct handles are linked to
\* distinct Platform-B installations.
InstOf(h) == IF h = "shop-1" THEN "inst-1" ELSE "inst-2"
Insts == {InstOf(h) : h \in Handles}

\* Prices are in cents (9.99 is 999).
ProductA1 == [title |-> "Mug", description |-> "plain", price |-> 999, updatedAt |-> 1]
ProductA2 == [title |-> "Mug", description |-> "plain", price |-> 1099, updatedAt |-> 2]
ProductsA == {ProductA1, ProductA2}
ProductsB == [title : {"Mug", "Cup"}, description : {"plain", "fancy"}, price : {999, 1099}]

\* An item of the installation table (platform = 'shopline').
StoreItem(status, installationId, tokenExpiry, bwpInstallationId) ==
  [status |-> status, installationId |-> installationId,
   tokenExpiry |-> tokenExpiry, bwpInstallationId |-> bwpInstallationId]

----------------------------------------------------------------------------
(* Pure helpers of the sync handlers *)

compareProductsNoPrice(shoplineProduct, bwpProduct) ==
  \/ shoplineProduct.title # bwpProduct.title
  \/ shoplineProduct.description # bwpProduct.description

compareProducts(shoplineProduct, bwpProduct) ==
  \/ shoplineProduct.title # bwpProduct.title
  \/ shoplineProduct.description # bwpProduct.description
  \/ shoplineProduct.price # bwpProduct.price

convertToBWPFormatNoDescription(shoplineProduct) ==
  [title |-> shoplineProduct.title,
   description |-> "",
   price |-> shoplineProduct.price]

convertToBWPFormat(shoplineProduct) ==
  [title |-> shoplineProduct.title,
   description |-> shoplineProduct.description,
   price |-> shoplineProduct.price]

\* response.data.data of GET /products: the products of the handle, each with its id.
ShoplineList(h) ==
  LET present == SelectSeq(PidSeq, LAMBDA p : catA[h][p] # Absent)
  IN [k \in 1..Len(present) |->
        [id |-> present[k], title |-> catA[h][present[k]].title,
         description |-> catA[h][present[k]].description,
         price |-> catA[h][present[k]].price,
         updatedAt |-> catA[h][present[k]].updatedAt]]

\* response.data of GET /v1/products under the installation's token.
BWPList(inst) ==
  LET present == SelectSeq(PidSeq, LAMBDA p : catB[inst][p] # Absent)
  IN [k \in 1..Len(present) |->
        [id |-> present[k], title |-> catB[inst][present[k]].title,
         description |-> catB[inst][present[k]].description,
         price |-> catB[inst][present[k]].price]]

\* bwpProducts.find(p => p.id === id): the first match, or None.
FindById(bwpProducts, id) ==
  LET hits == {k \in 1..Len(bwpProducts) : bwpProducts[k].id = id}
  IN IF hits = {} THEN None
     ELSE bwpProducts[CHOOSE k \in hits : \A m \in hits : k <= m]

\* getBWPCredentials: throws when the token store holds no item.
HasBWPToken(inst) == bwpTokenStore[inst] # NoItem

NotLinkedNever(store) == FALSE

\* !bwpInstallationId
NotLinked(store) == store.bwpInstallationId = NoInst

\* Whether a platform call on behalf of handle h goes through.
CallOk(h) == h \notin faulty

BatchDecisionNoCreate(shoplineProduct, bwpProducts) ==
  LET bwpProduct == FindById(bwpProducts, shoplineProduct.id)
  IN IF bwpProduct # None /\ compareProducts(shoplineProduct, bwpProduct) THEN "update"
     ELSE "skip"

\* The branch the batch loop body takes for one Platform-A product.
BatchDecision(shoplineProduct, bwpProducts) ==
  LET bwpProduct == FindById(bwpProducts, shoplineProduct.id)
  IN IF bwpProduct # None /\ compareProducts(shoplineProduct, bwpProduct) THEN "update"
     ELSE IF bwpProduct = None THEN "create"
     ELSE "skip"

\* The branch the webhook handler takes once both products are fetched;
\* compareProducts dereferences both arguments, so a missing one throws.
WebhookDecision(shoplineProduct, bwpProduct) ==
  IF shoplineProduct = None \/ bwpProduct = None THEN "throw"
  ELSE IF compareProducts(shoplineProduct, bwpProduct) THEN "update"
  ELSE "skip"

\* All orders in which a scan may return the items of a set.
Perms(S) ==
  {s \in [1..Cardinality(S) -> S] : \A i, j \in 1..Cardinality(S) : i # j => s[i] # s[j]}

----------------------------------------------------------------------------
(* Initial states of the sync model *)

\* How a product slot may start out: the Platform-A product and its counterpart.
SlotKinds ==
  { <<Absent, [title |-> "Cup", description |-> "fancy", price |-> 1099]>>,
    <<ProductA1, Absent>>,
    <<ProductA1, convertToBWPFormat(ProductA1)>>,
    <<ProductA1, [convertToBWPFormat(ProductA1) EXCEPT !.title = "Cup"]>>,
    <<ProductA1, [convertToBWPFormat(ProductA1) EXCEPT !.description = "fancy"]>>,
    <<ProductA1, [convertToBWPFormat(ProductA1) EXCEPT !.price = 1099]>> }

BatchIdle ==
  /\ bPc = "idle" /\ bStores = <<>> /\ bI = 0 /\ bA = <<>> /\ bB = <<>> /\ bJ = 0
  /\ bResp = 0 /\ bCalls = {} /\ pushLog = <<>> /\ bLog = <<>>
  /\ catB0 = catB
  /\ bUndisturbed = FALSE /\ quiet = FALSE /\ bAfterQuiet = FALSE /\ prevPushes = 0

WebhookIdle ==
  /\ wPc = "idle" /\ wReq = None /\ wInst = NoInst /\ wA = None /\ wB = None
  /\ wResp = 0 /\ wCalls = {} /\ wPushes = <<>>
  /\ wFresh = FALSE /\ wStartB = catB /\ wReplay = FALSE
  /\ wSeenB = None /\ wPrevResp = 0 /\ wPrevPushes = 0

InSyncSlot == <<ProductA1, convertToBWPFormat(ProductA1)>>
BOnlySlot == <<Absent, [title |-> "Cup", description |-> "fancy", price |-> 1099]>>

\* Catalogs in which at most MaxDivergent slots are not in sync.
SlotsDiverging ==
  {slots \in [Handles \X Pids -> SlotKinds] :
     Cardinality({hp \in Handles \X Pids : slots[hp] # InSyncSlot}) <= MaxDivergent}

\* Catalogs with at most MaxExtras products that exist on Platform B only and
\* at most MaxDivergent Platform-A products that are missing or priced
\* differently on Platform B.
SlotsWithExtras ==
  {slots \in [Handles \X Pids ->
               {InSyncSlot, BOnlySlot, <<ProductA1, Absent>>,
                <<ProductA1, [convertToBWPFormat(ProductA1) EXCEPT !.price = 1099]>>}] :
     /\ Cardinality({hp \in Handles \X Pids : slots[hp] = BOnlySlot}) <= MaxExtras
     /\ Cardinality({hp \in Handles \X Pids : slots[hp] \notin {InSyncSlot, BOnlySlot}})
          <= MaxDivergent}

CatalogInit(slotChoices) ==
  \E slots \in slotChoices :
     /\ catA = [h \in Handles |-> [p \in Pids |-> slots[<<h, p>>][1]]]
     /\ catB = [i \in Insts |-> [p \in Pids |->
                  slots[<<CHOOSE h \in Handles : InstOf(h) = i, p>>][2]]]

TableInit(linked) ==
  installationTable =
    [h \in Handles \cup {UnknownHandle} |->
       IF h = UnknownHandle THEN NoItem
       ELSE StoreItem("installed", NoInst, 0, IF h \in linked THEN InstOf(h) ELSE NoInst)]

\* An item of the Platform-B token store.
TokenItem(installationId, updatedAt, tokenData) ==
  [installation_id |-> installationId, updated_at |-> updatedAt,
   token |-> tokenData.access_token, refresh_token |-> tokenData.refresh_token]

TokenStoreInit ==
  bwpTokenStore =
    [i \in Insts |-> TokenItem(i, 0, [access_token |-> "tok", refresh_token |-> "ref"])]

----------------------------------------------------------------------------
(* The install flows: value domains and idle states *)

\* Values generateState() can return (randomBytes(32) as hex).
States == {"s1", "s2"}
\* Concurrent handleCallback invocations.
CallIds == {1, 2}

\* The shop query parameter, character by character; the domain suffix is
\* kept as one piece.
Alnum == {"a", "b", "1"}
ShopInputs ==
  { <<>>,
    <<"b", "-", "1", ".myshopline.com">>,
    <<"-", "a", ".myshopline.com">>,
    <<"a", ".example.com">> }

\* /^[a-zA-Z0-9][a-zA-Z0-9-]*\.myshopline\.com$/.test(shop)
ShopMatches(shop) ==
  /\ Len(shop) >= 2
  /\ shop[1] \in Alnum
  /\ \A i \in 2..(Len(shop) - 1) : shop[i] \in Alnum \cup {"-"}
  /\ shop[Len(shop)] = ".myshopline.com"

Shops == {shop \in ShopInputs : ShopMatches(shop)}

IdleCallback ==
  [pc |-> "idle", code |-> "", state |-> "", shop |-> <<>>, tokenData |-> None,
   statusCode |-> 0, error |-> "", wrote |-> FALSE, afterSuccess |-> FALSE,
   stateExpired |-> FALSE, afterExchangeFailure |-> FALSE]

InstallIdle ==
  /\ installStateTable = [s \in States |-> NoItem]
  /\ storesTable = [shop \in Shops |-> NoItem]
  /\ issuedStates = {}
  /\ hResp = [statusCode |-> 0, error |-> "", state |-> "", shop |-> <<>>]
  /\ cb = [i \in CallIds |-> IdleCallback]
  /\ succeeded = {}
  /\ exchangeFailed = {}

\* Values Math.random().toString() can return in handleBWPLaunch.
PkceStates == {"0.1", "0.2"}

IdleBWPInstall ==
  [pc |-> "idle", tokenOk |-> FALSE, installationId |-> NoInst, code |-> "", state |-> "",
   codeVerifier |-> <<>>, sentVerifier |-> <<>>, tokenData |-> None,
   statusCode |-> 0, body |-> <<>>, wrote |-> FALSE, afterSuccess |-> FALSE]

\* No answer of a guarded endpoint yet.
NoAnswer ==
  [endpoint |-> "", cause |-> "", code |-> "", state |-> "", statusCode |-> 0, body |-> <<>>,
   afterOtherCause |-> FALSE, installationId |-> NoInst]

PkceIdle ==
  /\ bwpStateTable = [s \in PkceStates |-> NoItem]
  /\ pkIssued = {}
  /\ lResp = [statusCode |-> 0, state |-> "", codeChallenge |-> <<>>]
  /\ pk = IdleBWPInstall
  /\ pkSucceeded = {}
  /\ gr = NoAnswer

\* Concurrent invocations of the signed handlers.
HmacCalls == {1}

\* The invocations of the signed handlers that may be in progress together.
SignedCallIds == {1, 2}

IdleSigned ==
  [pc |-> "idle", kind |-> "", params |-> <<>>, credentials |-> None, tokenData |-> None,
   statusCode |-> 0, calledToken |-> FALSE, wroteSecret |-> FALSE, wroteTable |-> FALSE]

SecretInit ==
  shoplineSecret = [appKey |-> "ak", appSecret |-> "secret",
                    tokens |-> [h \in Handles |-> NoItem]]

HmacIdle ==
  /\ SecretInit
  /\ usedIds = {}
  /\ hm = [i \in SignedCallIds |-> IdleSigned]

\* No request is on its way to verifySign.
SignIdle ==
  sg = [pc |-> "idle", kind |-> "", request |-> <<>>, swaps |-> 0,
        tampered |-> FALSE, accepted |-> FALSE, wasAccepted |-> FALSE]

\* The refresh handler is not running.
IdleSweep ==
  [pc |-> "idle", credentials |-> None, tokens |-> None, order |-> <<>>, k |-> 0,
   statusCode |-> 0, attempted |-> {}, refreshed |-> {},
   checkedAt |-> [h \in Handles |-> -1]]

SweepIdle == sw = IdleSweep /\ refreshFailures = [h \in Handles |-> 0]

\* No request to Platform A yet.
NoCall == [handle |-> "", bearer |-> <<>>]

\* No invocation of the auth router or the product handler yet.
NoInvocation ==
  [handler |-> "", hasContext |-> FALSE, path |-> <<>>, method |-> "", handle |-> "",
   storeFound |-> FALSE, linked |-> FALSE, ok |-> FALSE,
   result |-> [outcome |-> "", statusCode |-> 0]]

OtherIdle == SignIdle /\ SweepIdle /\ aCall = NoCall /\ ans = NoInvocation

AuthIdle ==
  now = 0 /\ InstallIdle /\ PkceIdle /\ getCommandBound = FALSE /\ HmacIdle /\ OtherIdle

\* Any stores linked, any linked stores failing (no call is ever made for an
\* unlinked store).
SyncInit ==
  /\ \E linked \in SUBSET Handles :
        /\ TableInit(linked)
        /\ faulty \in SUBSET linked
  /\ TokenStoreInit
  /\ CatalogInit(SlotsDiverging)
  /\ envChanges = 0
  /\ BatchIdle
  /\ WebhookIdle
  /\ AuthIdle

\* Every store linked and reachable: the start of overlapping runs.
ConcurrentInit ==
  /\ TableInit(Handles)
  /\ TokenStoreInit
  /\ CatalogInit(SlotsWithExtras)
  /\ faulty = {}
  /\ envChanges = 0
  /\ BatchIdle
  /\ WebhookIdle
  /\ AuthIdle

----------------------------------------------------------------------------
(* The scheduled batch sync handler *)

Call(platform, op, handle, pid) ==
  [platform |-> platform, op |-> op, handle |-> handle, pid |-> pid]

\* The catch block of the batch handler: the run ends with a 500.
BatchThrow ==
  /\ bPc' = "done"
  /\ bResp' = 500

\* getAllStores: a scan of the shopline items, in any order.
BatchStart ==
  /\ bPc \in {"idle", "done"}
  /\ \E order \in Perms({h \in Handles : installationTable[h] # NoItem}) :
       bStores' = [k \in 1..Len(order) |->
                     [id |-> order[k],
                      bwpInstallationId |-> installationTable[order[k]].bwpInstallationId]]
  /\ bPc' = "loop"
  /\ bI' = 1
  /\ bA' = <<>> /\ bB' = <<>> /\ bJ' = 0 /\ bResp' = 0
  /\ bCalls' = {} /\ pushLog' = <<>> /\ bLog' = <<>>
  /\ catB0' = catB
  /\ bUndisturbed' = TRUE
  /\ bAfterQuiet' = quiet
  /\ prevPushes' = Len(pushLog)
  /\ UNCHANGED <<installationTable, bwpTokenStore, catA, catB, faulty, envChanges, quiet>>
  /\ UNCHANGED webhookVars
  /\ UNCHANGED authVars

\* The head of the store loop: skip an unlinked store, else getShoplineProducts;
\* past the last store the handler returns 200.
BatchStore ==
  /\ bPc = "loop"
  /\ IF bI > Len(bStores)
       THEN /\ bPc' = "done" /\ bResp' = 200
            /\ quiet' = bUndisturbed
            /\ UNCHANGED <<bI, bA, bCalls>>
       ELSE IF NotLinked(bStores[bI])
       THEN /\ bI' = bI + 1
            /\ UNCHANGED <<bPc, bResp, bA, bCalls, quiet>>
       ELSE /\ bCalls' = bCalls \cup {Call("A", "list", bStores[bI].id, "all")}
            /\ IF CallOk(bStores[bI].id)
                 THEN /\ bA' = ShoplineList(bStores[bI].id)
                      /\ bPc' = "gotA"
                      /\ UNCHANGED bResp
                 ELSE /\ BatchThrow
                      /\ UNCHANGED bA
            /\ UNCHANGED <<bI, quiet>>
  /\ UNCHANGED <<bStores, bB, bJ, pushLog, bLog, catB0, bUndisturbed, bAfterQuiet, prevPushes>>
  /\ UNCHANGED <<installationTable, bwpTokenStore, catA, catB, faulty, envChanges>>
  /\ UNCHANGED webhookVars
  /\ UNCHANGED authVars

\* getBWPProducts(bwpInstallationId)
BatchGetBWP ==
  /\ bPc = "gotA"
  /\ LET store == bStores[bI] IN
     IF HasBWPToken(store.bwpInstallationId)
     THEN /\ bCalls' = bCalls \cup {Call("B", "list", store.id, "all")}
          /\ IF CallOk(store.id)
               THEN /\ bB' = BWPList(store.bwpInstallationId)
                    /\ bJ' = 1
                    /\ bPc' = "prod"
                    /\ UNCHANGED bResp
               ELSE /\ BatchThrow
                    /\ UNCHANGED <<bB, bJ>>
     ELSE /\ BatchThrow
          /\ UNCHANGED <<bB, bJ, bCalls>>
  /\ UNCHANGED <<bStores, bI, bA, pushLog, bLog, catB0, bUndisturbed, quiet, bAfterQuiet,
                 prevPushes>>
  /\ UNCHANGED <<installationTable, bwpTokenStore, catA, catB, faulty, envChanges>>
  /\ UNCHANGED webhookVars
  /\ UNCHANGED authVars

PutBWPAllProducts(inst, pid, productData) ==
  catB' = [catB EXCEPT ![inst] = [p \in Pids |-> productData]]

\* updateBWPProduct(installationId, productId, productData): the token is read,
\* then PUT /v1/products/{productId} stores productData under that id.
PutBWP(inst, pid, productData) ==
  catB' = [catB EXCEPT ![inst][pid] = productData]

\* The console.log line that ends an iteration of the product loop:
\* 'Updated BWP product', 'Created new BWP product' or 'No update needed'.
LogLine(handle, pid, decision) ==
  [handle |-> handle, id |-> pid,
   outcome |-> IF decision = "update" THEN "updated"
               ELSE IF decision = "create" THEN "created" ELSE "skipped"]

\* One iteration of the product loop: find, compare, and push when needed.
BatchProduct ==
  /\ bPc = "prod"
  /\ LET store == bStores[bI] IN
     IF bJ > Len(bA)
     THEN /\ bI' = bI + 1
          /\ bPc' = "loop"
          /\ UNCHANGED <<bJ, bResp, bCalls, pushLog, bLog, catB, wFresh, wReplay>>
     ELSE LET shoplineProduct == bA[bJ]
              decision == BatchDecision(shoplineProduct, bB)
          IN IF decision = "skip"
             THEN /\ bJ' = bJ + 1
                  /\ bLog' = Append(bLog, LogLine(store.id, shoplineProduct.id, decision))
                  /\ UNCHANGED <<bI, bPc, bResp, bCalls, pushLog, catB, wFresh, wReplay>>
             ELSE IF HasBWPToken(store.bwpInstallationId) /\ CallOk(store.id)
             THEN /\ PutBWP(store.bwpInstallationId, shoplineProduct.id,
                             convertToBWPFormat(shoplineProduct))
                  /\ bCalls' = bCalls \cup {Call("B", "put", store.id, shoplineProduct.id)}
                  /\ pushLog' = Append(pushLog,
                        [handle |-> store.id, inst |-> store.bwpInstallationId,
                         id |-> shoplineProduct.id, action |-> decision,
                         existed |-> catB[store.bwpInstallationId][shoplineProduct.id] # Absent,
                         data |-> convertToBWPFormat(shoplineProduct)])
                  /\ bLog' = Append(bLog, LogLine(store.id, shoplineProduct.id, decision))
                  /\ wFresh' = FALSE /\ wReplay' = FALSE
                  /\ bJ' = bJ + 1
                  /\ UNCHANGED <<bI, bPc, bResp>>
             ELSE /\ BatchThrow
                  /\ UNCHANGED <<bI, bJ, bCalls, pushLog, bLog, catB, wFresh, wReplay>>
  /\ UNCHANGED <<bStores, bA, bB, catB0, bUndisturbed, quiet, bAfterQuiet, prevPushes>>
  /\ UNCHANGED <<installationTable, bwpTokenStore, catA, faulty, envChanges>>
  /\ UNCHANGED <<wPc, wReq, wInst, wA, wB, wResp, wCalls, wPushes, wStartB, wSeenB, wPrevResp, wPrevPushes>>
  /\ UNCHANGED authVars

----------------------------------------------------------------------------
(* Platform-side edits by the merchants *)

\* Any platform-side edit ends the quiet period of the runs.
Disturb ==
  /\ envChanges < MaxEnvChanges
  /\ envChanges' = envChanges + 1
  /\ bUndisturbed' = FALSE
  /\ quiet' = FALSE
  /\ wFresh' = FALSE
  /\ wReplay' = FALSE

\* The merchant edits or deletes a product on Platform A.
ShoplineEdit ==
  /\ \E h \in Handles, p \in Pids, v \in ProductsA \cup {Absent} :
       /\ v # catA[h][p]
       /\ catA' = [catA EXCEPT ![h][p] = v]
  /\ Disturb
  /\ UNCHANGED <<installationTable, bwpTokenStore, catB, faulty>>
  /\ UNCHANGED <<bPc, bStores, bI, bA, bB, bJ, bResp, bCalls, pushLog, bLog, catB0,
                 bAfterQuiet, prevPushes>>
  /\ UNCHANGED <<wPc, wReq, wInst, wA, wB, wResp, wCalls, wPushes, wStartB, wSeenB, wPrevResp, wPrevPushes>>
  /\ UNCHANGED authVars

----------------------------------------------------------------------------
(* The product webhook handler *)

\* Webhook bodies: a malformed body, or a JSON object whose handle and
\* productId may be missing ("").
WebhookBodies ==
  [malformed : {FALSE}, handle : Handles, productId : Pids] \cup
  { [malformed |-> TRUE, handle |-> "", productId |-> ""],
    [malformed |-> FALSE, handle |-> "", productId |-> "p1"],
    [malformed |-> FALSE, handle |-> "shop-1", productId |-> ""],
    [malformed |-> FALSE, handle |-> UnknownHandle, productId |-> "p1"] }

\* Every return of the handler: the response.
WebhookReturn(code) ==
  /\ wPc' = "done"
  /\ wResp' = code

\* JSON.parse, the parameter check and getStoreInfo.
WebhookReceive ==
  /\ wPc \in {"idle", "done"}
  /\ \E req \in WebhookBodies :
       /\ wReq' = req
       /\ wReplay' = (wFresh /\ wPc = "done" /\ wReq = req)
       /\ wFresh' = TRUE
       /\ wStartB' = catB
       /\ wPrevResp' = wResp
       /\ wPrevPushes' = Len(wPushes)
       /\ IF req.malformed
            THEN WebhookReturn(500) /\ wInst' = NoInst
            ELSE IF req.handle = "" \/ req.productId = ""
            THEN WebhookReturn(400) /\ wInst' = NoInst
            ELSE IF installationTable[req.handle] = NoItem
            THEN WebhookReturn(500) /\ wInst' = NoInst
            ELSE IF installationTable[req.handle].bwpInstallationId = NoInst
            THEN WebhookReturn(500) /\ wInst' = NoInst
            ELSE /\ wPc' = "store"
                 /\ wInst' = installationTable[req.handle].bwpInstallationId
                 /\ UNCHANGED wResp
  /\ wA' = None /\ wB' = None /\ wSeenB' = None /\ wCalls' = {} /\ wPushes' = <<>>
  /\ UNCHANGED <<installationTable, bwpTokenStore, catA, catB, faulty, envChanges, quiet>>
  /\ UNCHANGED batchVars
  /\ UNCHANGED authVars

\* getShoplineProduct(handle, productId); a missing product is answered with
\* an error or with an empty body.
WebhookGetShopline ==
  /\ wPc = "store"
  /\ wCalls' = wCalls \cup {Call("A", "get", wReq.handle, wReq.productId)}
  /\ IF ~CallOk(wReq.handle)
       THEN WebhookReturn(500) /\ UNCHANGED wA
       ELSE IF catA[wReq.handle][wReq.productId] = Absent
       THEN \/ WebhookReturn(500) /\ UNCHANGED wA
            \/ wA' = None /\ wPc' = "gotA" /\ UNCHANGED wResp
       ELSE /\ wA' = catA[wReq.handle][wReq.productId]
            /\ wPc' = "gotA"
            /\ UNCHANGED wResp
  /\ UNCHANGED <<wReq, wInst, wB, wPushes, wStartB, wReplay, wFresh, wSeenB, wPrevResp, wPrevPushes>>
  /\ UNCHANGED <<installationTable, bwpTokenStore, catA, catB, faulty, envChanges, quiet>>
  /\ UNCHANGED batchVars
  /\ UNCHANGED authVars

\* What the handler does once getBWPProduct has answered with bwpProduct.
WebhookCompare(bwpProduct) ==
  /\ wB' = bwpProduct
  /\ LET decision == WebhookDecision(wA, bwpProduct) IN
     IF decision = "throw" THEN WebhookReturn(500)
     ELSE IF decision = "skip" THEN WebhookReturn(200)
     ELSE wPc' = "push" /\ UNCHANGED wResp

\* getBWPProduct(bwpInstallationId, productId), then compareProducts.
WebhookGetBWP ==
  /\ wPc = "gotA"
  /\ IF ~HasBWPToken(wInst)
       THEN WebhookReturn(500) /\ UNCHANGED <<wB, wCalls, wSeenB>>
       ELSE /\ wCalls' = wCalls \cup {Call("B", "get", wReq.handle, wReq.productId)}
            /\ IF ~CallOk(wReq.handle)
                 THEN WebhookReturn(500) /\ UNCHANGED <<wB, wSeenB>>
                 ELSE /\ wSeenB' = catB[wInst][wReq.productId]
                      /\ IF catB[wInst][wReq.productId] = Absent
                           THEN \/ WebhookReturn(500) /\ UNCHANGED wB
                                \/ WebhookCompare(None)
                           ELSE WebhookCompare(catB[wInst][wReq.productId])
  /\ UNCHANGED <<wReq, wInst, wA, wPushes, wStartB, wReplay, wFresh, wPrevResp, wPrevPushes>>
  /\ UNCHANGED <<installationTable, bwpTokenStore, catA, catB, faulty, envChanges, quiet>>
  /\ UNCHANGED batchVars
  /\ UNCHANGED authVars

\* updateBWPProduct(bwpInstallationId, productId, convertToBWPFormat(shoplineProduct))
WebhookPush ==
  /\ wPc = "push"
  /\ IF HasBWPToken(wInst) /\ CallOk(wReq.handle)
       THEN /\ PutBWP(wInst, wReq.productId, convertToBWPFormat(wA))
            /\ wCalls' = wCalls \cup {Call("B", "put", wReq.handle, wReq.productId)}
            /\ wPushes' = Append(wPushes,
                  [handle |-> wReq.handle, inst |-> wInst, id |-> wReq.productId,
                   action |-> "update",
                   existed |-> catB[wInst][wReq.productId] # Absent,
                   data |-> convertToBWPFormat(wA)])
            /\ WebhookReturn(200)
            /\ quiet' = FALSE
       ELSE /\ WebhookReturn(500)
            /\ UNCHANGED <<catB, wCalls, wPushes, quiet>>
  /\ UNCHANGED <<wReq, wInst, wA, wB, wStartB, wReplay, wFresh, wSeenB, wPrevResp, wPrevPushes>>
  /\ UNCHANGED <<installationTable, bwpTokenStore, catA, faulty, envChanges>>
  /\ UNCHANGED batchVars
  /\ UNCHANGED authVars

WebhookNext ==
  WebhookReceive \/ WebhookGetShopline \/ WebhookGetBWP \/ WebhookPush \/ ShoplineEdit

WebhookSpec == SyncInit /\ [][WebhookNext]_vars

SyncNext ==
  \/ BatchStart \/ BatchStore \/ BatchGetBWP \/ BatchProduct
  \/ WebhookReceive \/ WebhookGetShopline \/ WebhookGetBWP \/ WebhookPush

SyncSpec == ConcurrentInit /\ [][SyncNext]_vars

\* Every store linked and reachable, the two catalogs equal: overlapping runs
\* while a product of Platform A changes.
RaceInit ==
  /\ TableInit(Handles)
  /\ TokenStoreInit
  /\ CatalogInit({[hp \in Handles \X Pids |-> InSyncSlot]})
  /\ faulty = {}
  /\ envChanges = 0
  /\ BatchIdle
  /\ WebhookIdle
  /\ AuthIdle

RaceNext ==
  \/ BatchStart \/ BatchStore \/ BatchGetBWP \/ BatchProduct
  \/ WebhookReceive \/ WebhookGetShopline \/ WebhookGetBWP \/ WebhookPush
  \/ ShoplineEdit

RaceSpec == RaceInit /\ [][RaceNext]_vars

\* The calls on behalf of every store succeed again.
Recover ==
  /\ faulty # {}
  /\ faulty' = {}
  /\ bUndisturbed' = FALSE /\ quiet' = FALSE /\ wFresh' = FALSE /\ wReplay' = FALSE
  /\ UNCHANGED <<installationTable, bwpTokenStore, catA, catB, envChanges>>
  /\ UNCHANGED <<bPc, bStores, bI, bA, bB, bJ, bResp, bCalls, pushLog, bLog, catB0,
                 bAfterQuiet, prevPushes>>
  /\ UNCHANGED <<wPc, wReq, wInst, wA, wB, wResp, wCalls, wPushes, wStartB, wSeenB, wPrevResp, wPrevPushes>>
  /\ UNCHANGED authVars

\* The steps of the scheduled batch run.
BatchRun == BatchStart \/ BatchStore \/ BatchGetBWP \/ BatchProduct

\* Scheduled runs one after another, for ever, while Platform A is edited a
\* bounded number of times and failing stores may recover.
ScheduledNext == BatchRun \/ ShoplineEdit \/ Recover

ScheduledSpec == SyncInit /\ [][ScheduledNext]_vars /\ WF_vars(BatchRun)

BatchNext == BatchStart \/ BatchStore \/ BatchGetBWP \/ BatchProduct \/ ShoplineEdit

BatchSpec == SyncInit /\ [][BatchNext]_vars

\* The calls on behalf of a store begin to fail while a run is under way.
Outage ==
  /\ \E h \in Handles \ faulty : faulty' = faulty \cup {h}
  /\ Disturb
  /\ UNCHANGED <<installationTable, bwpTokenStore, catA, catB>>
  /\ UNCHANGED <<bPc, bStores, bI, bA, bB, bJ, bResp, bCalls, pushLog, bLog, catB0,
                 bAfterQuiet, prevPushes>>
  /\ UNCHANGED <<wPc, wReq, wInst, wA, wB, wResp, wCalls, wPushes, wStartB, wSeenB, wPrevResp, wPrevPushes>>
  /\ UNCHANGED authVars

OutageNext == BatchStart \/ BatchStore \/ BatchGetBWP \/ BatchProduct \/ Outage

OutageSpec == SyncInit /\ [][OutageNext]_vars

----------------------------------------------------------------------------
(* The state-keyed install flow (code/shoplineinstall/index.mjs) *)

\* Seconds after which a state record expires.
StateTtl == 3600

\* The most clock steps of a behaviour, and the length of one in milliseconds.
MaxTicks == 1
TickMs == (StateTtl + 1) * 1000

\* The sync handlers at rest, with both catalogs equal.
RunsParked ==
  /\ CatalogInit({[hp \in Handles \X Pids |-> InSyncSlot]})
  /\ faulty = {}
  /\ envChanges = 0
  /\ BatchIdle
  /\ WebhookIdle

\* The catch blocks: statusCode is error.statusCode || 500, and none of the
\* errors thrown here carries a statusCode.
ErrorResponse(message) ==
  [statusCode |-> 500, error |-> message, state |-> "", shop |-> <<>>]

\* validateRequest with the checks of the shop left out.
validateRequestAny(shop) == ""

\* validateRequest(event): the message of the error thrown, "" when the shop is returned.
validateRequest(shop) ==
  IF shop = <<>> THEN "Missing shop parameter"
  ELSE IF ~ShopMatches(shop) THEN "Invalid shop domain"
  ELSE ""

\* Whether the item stored under a state is past its expiry attribute.
Expired(state) ==
  /\ state \in States
  /\ installStateTable[state] # NoItem
  /\ now \div 1000 > installStateTable[state].expiry

\* The item the install handler stores under a new state.
StateItem(state, shop) ==
  [state |-> state, shop |-> shop, timestamp |-> now, type |-> "shopline_install",
   expiry |-> (now \div 1000) + StateTtl]

\* handler: validateRequest, getSecrets, generateState, put the state item,
\* answer with the authorize redirect.
InstallHandler ==
  /\ \E shop \in ShopInputs, secretsOk \in BOOLEAN, putOk \in BOOLEAN :
       IF validateRequest(shop) # ""
         THEN /\ hResp' = [ErrorResponse(validateRequest(shop)) EXCEPT !.shop = shop]
              /\ UNCHANGED <<installStateTable, issuedStates>>
       ELSE IF ~secretsOk
         THEN /\ hResp' = [ErrorResponse("getSecretValue failed") EXCEPT !.shop = shop]
              /\ UNCHANGED <<installStateTable, issuedStates>>
       ELSE \E state \in States \ issuedStates :
              /\ issuedStates' = issuedStates \cup {state}
              /\ IF putOk
                   THEN /\ installStateTable' =
                             [installStateTable EXCEPT ![state] = StateItem(state, shop)]
                        /\ hResp' = [statusCode |-> 302, error |-> "", state |-> state,
                                      shop |-> shop]
                   ELSE /\ hResp' = [ErrorResponse("put failed") EXCEPT !.shop = shop]
                        /\ UNCHANGED installStateTable
  /\ UNCHANGED <<storesTable, cb, succeeded, exchangeFailed>>
  /\ UNCHANGED <<now, syncVars, pkceVars, hmacVars, otherVars>>

CallbackFail(i, message) ==
  cb' = [cb EXCEPT ![i].pc = "done", ![i].statusCode = 500, ![i].error = message]

\* handleCallback, up to the answer of dynamodb.get: the parameter check and
\* the state lookup.
CallbackLookup(i) ==
  /\ cb[i].pc \in {"idle", "done"}
  /\ \E code \in {"", "c1"}, state \in States \cup {""} :
       LET call == [IdleCallback EXCEPT !.code = code, !.state = state,
                                        !.afterSuccess = state \in succeeded,
                                        !.stateExpired = Expired(state),
                                        !.afterExchangeFailure = state \in exchangeFailed]
       IN IF code = "" \/ state = ""
            THEN cb' = [cb EXCEPT ![i] = [call EXCEPT !.pc = "done", !.statusCode = 500,
                                                      !.error = "Missing required parameters"]]
          ELSE IF \/ installStateTable[state] = NoItem
                  \/ installStateTable[state].type # "shopline_install"
            THEN cb' = [cb EXCEPT ![i] = [call EXCEPT !.pc = "done", !.statusCode = 500,
                                                      !.error = "Invalid state"]]
          ELSE cb' = [cb EXCEPT ![i] = [call EXCEPT !.pc = "exchange",
                                                    !.shop = installStateTable[state].shop]]
  /\ UNCHANGED <<installStateTable, storesTable, issuedStates, hResp, succeeded,
                 exchangeFailed>>
  /\ UNCHANGED <<now, syncVars, pkceVars, hmacVars, otherVars>>

\* getSecrets and the token request.
CallbackExchange(i) ==
  /\ cb[i].pc = "exchange"
  /\ \E secretsOk \in BOOLEAN, tokenOk \in BOOLEAN :
       IF ~secretsOk
         THEN CallbackFail(i, "getSecretValue failed") /\ UNCHANGED exchangeFailed
       ELSE IF ~tokenOk
         THEN /\ CallbackFail(i, "token request failed")
              /\ exchangeFailed' = exchangeFailed \cup {cb[i].state}
       ELSE /\ cb' = [cb EXCEPT ![i].pc = "put",
                                ![i].tokenData = [access_token |-> "at",
                                                  refresh_token |-> "rt",
                                                  scope |-> "read_products"]]
            /\ UNCHANGED exchangeFailed
  /\ UNCHANGED <<installStateTable, storesTable, issuedStates, hResp, succeeded>>
  /\ UNCHANGED <<now, syncVars, pkceVars, hmacVars, otherVars>>

\* dynamodb.put into STORES_TABLE.
CallbackPutStore(i) ==
  /\ cb[i].pc = "put"
  /\ \E putOk \in BOOLEAN :
       IF putOk
         THEN /\ storesTable' = [storesTable EXCEPT ![cb[i].shop] =
                     [shop |-> cb[i].shop,
                      accessToken |-> cb[i].tokenData.access_token,
                      refreshToken |-> cb[i].tokenData.refresh_token,
                      scope |-> cb[i].tokenData.scope,
                      installedAt |-> now, updatedAt |-> now]]
              /\ cb' = [cb EXCEPT ![i].pc = "delete", ![i].wrote = TRUE]
         ELSE CallbackFail(i, "put failed") /\ UNCHANGED storesTable
  /\ UNCHANGED <<installStateTable, issuedStates, hResp, succeeded, exchangeFailed>>
  /\ UNCHANGED <<now, syncVars, pkceVars, hmacVars, otherVars>>

DeleteStateKeep(table, state) == table

\* dynamodb.delete of the state record.
DeleteState(table, state) == [table EXCEPT ![state] = NoItem]

\* The delete, then the redirect to the application.
CallbackDelete(i) ==
  /\ cb[i].pc = "delete"
  /\ \E deleteOk \in BOOLEAN :
       IF deleteOk
         THEN /\ installStateTable' = DeleteState(installStateTable, cb[i].state)
              /\ cb' = [cb EXCEPT ![i].pc = "done", ![i].statusCode = 302]
              /\ succeeded' = succeeded \cup {cb[i].state}
         ELSE CallbackFail(i, "delete failed") /\ UNCHANGED <<installStateTable, succeeded>>
  /\ UNCHANGED <<storesTable, issuedStates, hResp, exchangeFailed>>
  /\ UNCHANGED <<now, syncVars, pkceVars, hmacVars, otherVars>>

\* Time passes: an hour and a second between two steps of the handlers.
Tick ==
  /\ now < MaxTicks * TickMs
  /\ now' = now + TickMs
  /\ UNCHANGED <<syncVars, installVars, pkceVars, hmacVars, otherVars>>

InstallInit == TableInit({}) /\ TokenStoreInit /\ RunsParked /\ AuthIdle

InstallNext ==
  \/ InstallHandler
  \/ \E i \in CallIds : CallbackLookup(i)
  \/ \E i \in CallIds : CallbackExchange(i)
  \/ \E i \in CallIds : CallbackPutStore(i)
  \/ \E i \in CallIds : CallbackDelete(i)

InstallSpec == InstallInit /\ [][InstallNext]_vars

\* One callback at a time, while time passes.
ExpiryNext ==
  \/ InstallHandler
  \/ CallbackLookup(1)
  \/ CallbackExchange(1)
  \/ CallbackPutStore(1)
  \/ CallbackDelete(1)
  \/ Tick

ExpirySpec == InstallInit /\ [][ExpiryNext]_vars

----------------------------------------------------------------------------
(* The Buy-with-Prime launch / install handlers (callback.mjs, 570-839) *)

\* The verification token of a request: missing, or a token whose signature
\* and request hash may each be wrong (the payload of a token that fails is
\* never read, so one installation id stands for all).
VerificationTokens ==
  {None} \cup {token \in [sigOk : BOOLEAN, hashOk : BOOLEAN, installationId : Insts] :
                 (token.sigOk /\ token.hashOk) \/ token.installationId = InstOf("shop-1")}

\* validateVerificationToken(event): whether it returns the payload (it throws otherwise).
validateVerificationToken(token) ==
  token # None /\ token.sigOk /\ token.hashOk

\* The message of the error validateVerificationToken throws: for a missing
\* token, from jwt.verify, for a request hash that differs; "" when it returns.
VerificationError(token) ==
  IF token = None THEN "Missing Verification Token"
  ELSE IF ~token.sigOk THEN "invalid signature"
  ELSE IF ~token.hashOk THEN "Actual request hash does not match the expected hash"
  ELSE ""

BWPErrorBodyEcho(endpoint, error) == <<"message", error>>

\* The body each handler's catch block answers with.
BWPErrorBody(endpoint, error) ==
  IF endpoint = "install" THEN <<"message", "BWP installation failed">>
  ELSE IF endpoint = "settings" THEN <<"message", "Failed to retrieve BWP settings">>
  ELSE <<"message", "BWP uninstallation failed">>

\* The answer of a guarded endpoint to a request, whether the request before
\* it was the same one failing the verification for another reason, and the
\* installation id of the payload when the token is valid.
Answered(endpoint, token, code, state, statusCode, body) ==
  gr' = [endpoint |-> endpoint, cause |-> VerificationError(token),
         code |-> code, state |-> state, statusCode |-> statusCode, body |-> body,
         afterOtherCause |->
           /\ gr.cause # "" /\ VerificationError(token) \notin {"", gr.cause}
           /\ gr.endpoint = endpoint /\ gr.code = code /\ gr.state = state,
         installationId |->
           IF validateVerificationToken(token) THEN token.installationId ELSE NoInst]

\* generateCodeVerifier(): a new random value at each launch, named by the
\* state drawn by the same launch.
generateCodeVerifier(state) == <<"verifier", state>>

\* generateCodeChallenge(verifier): base64url of the SHA-256 digest.
generateCodeChallenge(verifier) == <<"sha256", verifier>>

\* handleBWPLaunch: getBWPCredentials, a new state and verifier, the put of
\* the state item, the authorize redirect. There is no catch: a failing
\* collaborator rejects the call.
BWPLaunch ==
  /\ \E credentialsOk \in BOOLEAN, putOk \in BOOLEAN :
       IF ~credentialsOk
         THEN /\ lResp' = [statusCode |-> 0, state |-> "", codeChallenge |-> <<>>]
              /\ UNCHANGED <<bwpStateTable, pkIssued>>
         ELSE \E state \in PkceStates \ pkIssued :
                /\ pkIssued' = pkIssued \cup {state}
                /\ IF putOk
                     THEN /\ bwpStateTable' = [bwpStateTable EXCEPT ![state] =
                                 [state |-> state,
                                  codeVerifier |-> generateCodeVerifier(state),
                                  createdAt |-> now]]
                          /\ lResp' = [statusCode |-> 302, state |-> state,
                                        codeChallenge |->
                                          generateCodeChallenge(generateCodeVerifier(state))]
                     ELSE /\ lResp' = [statusCode |-> 0, state |-> "", codeChallenge |-> <<>>]
                          /\ UNCHANGED bwpStateTable
  /\ UNCHANGED <<pk, pkSucceeded, getCommandBound, gr>>
  /\ UNCHANGED <<now, syncVars, installVars, hmacVars, otherVars>>

\* The codeVerifier of the item another state is stored under, when there is one.
CodeVerifierOfAnother(state) ==
  IF \E s \in PkceStates \ {state} : bwpStateTable[s] # NoItem
    THEN bwpStateTable[CHOOSE s \in PkceStates \ {state} :
                         bwpStateTable[s] # NoItem].codeVerifier
    ELSE bwpStateTable[state].codeVerifier

\* stateData.Item.codeVerifier of the item read under the state of the request.
CodeVerifierOf(state) == bwpStateTable[state].codeVerifier

\* The catch block of handleBWPInstall.
BWPInstallFail(call, error) ==
  pk' = [call EXCEPT !.pc = "done", !.statusCode = 500,
                     !.body = BWPErrorBody("install", error)]

\* handleBWPInstall, up to the answer of the GetCommand: the verification
\* token and the state lookup.
BWPInstallLookup ==
  /\ pk.pc \in {"idle", "done"}
  /\ \E token \in VerificationTokens, code \in {"", "c1"}, state \in PkceStates \cup {""} :
       LET call == [IdleBWPInstall EXCEPT !.code = code, !.state = state,
                                          !.tokenOk = validateVerificationToken(token),
                                          !.afterSuccess = state \in pkSucceeded]
       IN IF ~validateVerificationToken(token)
            THEN /\ BWPInstallFail(call, VerificationError(token))
                 /\ Answered("install", token, code, state, 500,
                             BWPErrorBody("install", VerificationError(token)))
          ELSE /\ UNCHANGED gr
               /\ IF ~getCommandBound THEN BWPInstallFail(call, "GetCommand is not defined")
                  ELSE IF state = "" THEN BWPInstallFail(call, "Invalid state")
                  ELSE IF bwpStateTable[state] = NoItem
                    THEN BWPInstallFail(call, "Invalid state")
                  ELSE pk' = [call EXCEPT !.pc = "exchange",
                                          !.installationId = token.installationId,
                                          !.codeVerifier = CodeVerifierOf(state)]
  /\ UNCHANGED <<bwpStateTable, pkIssued, lResp, pkSucceeded, getCommandBound>>
  /\ UNCHANGED <<now, syncVars, installVars, hmacVars, otherVars>>

\* getBWPCredentials and the token request.
BWPInstallExchange ==
  /\ pk.pc = "exchange"
  /\ \E credentialsOk \in BOOLEAN, tokenOk \in BOOLEAN :
       IF ~credentialsOk THEN BWPInstallFail(pk, "Failed to get BWP credentials")
       ELSE IF ~tokenOk
         THEN BWPInstallFail([pk EXCEPT !.sentVerifier = pk.codeVerifier],
                             "Request failed")
       ELSE pk' = [pk EXCEPT !.pc = "put", !.sentVerifier = pk.codeVerifier,
                             !.tokenData = [access_token |-> "bwp-at",
                                            refresh_token |-> "bwp-rt"]]
  /\ UNCHANGED <<bwpStateTable, pkIssued, lResp, pkSucceeded, getCommandBound, gr>>
  /\ UNCHANGED <<now, syncVars, installVars, hmacVars, otherVars>>

\* The PutCommand into the token store, then the 200 answer.
BWPInstallPut ==
  /\ pk.pc = "put"
  /\ \E putOk \in BOOLEAN :
       IF putOk
         THEN /\ bwpTokenStore' = [bwpTokenStore EXCEPT ![pk.installationId] =
                     TokenItem(pk.installationId, now \div 1000, pk.tokenData)]
              /\ pk' = [pk EXCEPT !.pc = "done", !.statusCode = 200, !.wrote = TRUE,
                                  !.body = <<"message", "BWP installation successful">>]
              /\ pkSucceeded' = pkSucceeded \cup {pk.state}
         ELSE BWPInstallFail(pk, "put failed") /\ UNCHANGED <<bwpTokenStore, pkSucceeded>>
  /\ UNCHANGED <<bwpStateTable, pkIssued, lResp, getCommandBound, gr>>
  /\ UNCHANGED <<installationTable, runVars, now, installVars, hmacVars, otherVars>>

\* handleBWPSettings: the verification token, then the installation id of its
\* payload.
BWPSettings ==
  /\ \E token \in VerificationTokens :
       IF validateVerificationToken(token)
         THEN Answered("settings", token, "", "", 200,
                       <<"installationId", token.installationId>>)
         ELSE Answered("settings", token, "", "", 500,
                       BWPErrorBody("settings", VerificationError(token)))
  /\ UNCHANGED <<bwpStateTable, pkIssued, lResp, pk, pkSucceeded, getCommandBound>>
  /\ UNCHANGED <<now, syncVars, installVars, hmacVars, otherVars>>

\* handleBWPUninstall: the verification token, then the answer; nothing is
\* removed.
BWPUninstall ==
  /\ \E token \in VerificationTokens :
       IF validateVerificationToken(token)
         THEN Answered("uninstall", token, "", "", 200,
                       <<"message", "BWP uninstallation successful">>)
         ELSE Answered("uninstall", token, "", "", 500,
                       BWPErrorBody("uninstall", VerificationError(token)))
  /\ UNCHANGED <<bwpStateTable, pkIssued, lResp, pk, pkSucceeded, getCommandBound>>
  /\ UNCHANGED <<now, syncVars, installVars, hmacVars, otherVars>>

PkceInit ==
  /\ TableInit({})
  /\ bwpTokenStore = [i \in Insts |-> NoItem]
  /\ RunsParked
  /\ now = 0 /\ InstallIdle /\ HmacIdle /\ OtherIdle
  /\ PkceIdle
  /\ getCommandBound \in BOOLEAN

PkceNext ==
  \/ BWPLaunch
  \/ BWPInstallLookup
  \/ BWPInstallExchange
  \/ BWPInstallPut
  \/ BWPSettings
  \/ BWPUninstall

PkceSpec == PkceInit /\ [][PkceNext]_vars

----------------------------------------------------------------------------
(* The signed Shopline install and callback handlers (callback.mjs, 1-156 and 275-404) *)

\* A string is the sequence of its pieces; a query-string object is a function
\* from its keys to strings.
KeyOrder == <<"appkey", "code", "handle", "sign", "timestamp">>

\* Object.keys(params).sort()
SortedKeys(params) == SelectSeq(KeyOrder, LAMBDA key : key \in DOMAIN params)

RECURSIVE JoinPairs(_, _)
\* Object.entries(sortedParams).map(([key, value]) => `${key}=${value}`).join('&')
JoinPairs(keys, params) ==
  IF keys = <<>> THEN <<>>
  ELSE <<Head(keys), "=">> \o params[Head(keys)]
         \o (IF Len(keys) > 1 THEN <<"&">> \o JoinPairs(Tail(keys), params) ELSE <<>>)

\* generateSign of the callback handler: the MD5 digest of the joined pairs
\* followed by the secret. A digest is written as the string it was computed
\* from (no two inputs share a digest).
generateSignMd5(params, secret) ==
  <<"md5">> \o JoinPairs(SortedKeys(params), params) \o <<secret>>

\* generateSign of the install handler: the HMAC-SHA256 of the joined pairs
\* under the secret.
generateSignHmac(params, secret) ==
  <<"hmac-sha256", secret>> \o JoinPairs(SortedKeys(params), params)

\* const { sign, ...rest } = params
RestOf(params) == [key \in DOMAIN params \ {"sign"} |-> params[key]]

generateSign(kind, params, secret) ==
  IF kind = "callback" THEN generateSignMd5(params, secret)
  ELSE generateSignHmac(params, secret)

verifySignAcceptAll(kind, params, secret) == TRUE

\* verifySign(params, secret)
verifySign(kind, params, secret) ==
  params["sign"] = generateSign(kind, RestOf(params), secret)

\* The parameters each handler requires.
RequiredKeys(kind) ==
  IF kind = "callback" THEN {"appkey", "code", "handle", "timestamp", "sign"}
  ELSE {"appkey", "handle", "timestamp", "sign"}

\* !params[key]
Falsy(params, key) == key \notin DOMAIN params \/ params[key] = <<>>

\* A request as the platform sends it, signed with the given secret.
SignedParams(kind, handle, secret) ==
  LET rest == IF kind = "callback"
                THEN [key \in {"appkey", "code", "handle", "timestamp"} |->
                        IF key = "appkey" THEN <<"ak">>
                        ELSE IF key = "code" THEN <<"c1">>
                        ELSE IF key = "handle" THEN <<handle>>
                        ELSE <<"1700000000">>]
                ELSE [key \in {"appkey", "handle", "timestamp"} |->
                        IF key = "appkey" THEN <<"ak">>
                        ELSE IF key = "handle" THEN <<handle>>
                        ELSE <<"1700000000">>]
  IN [key \in DOMAIN rest \cup {"sign"} |->
        IF key = "sign" THEN generateSign(kind, rest, secret) ELSE rest[key]]

\* The requests tried: well-signed ones, and those with one parameter dropped,
\* emptied or altered after signing, or signed with another secret or algorithm.
SignedRequests(kind) ==
  UNION { LET good == SignedParams(kind, handle, "secret") IN
          {good, SignedParams(kind, handle, "guess")}
          \cup {[key \in DOMAIN good \ {gone} |-> good[key]] : gone \in DOMAIN good}
          \cup {[good EXCEPT ![key] = <<>>] : key \in DOMAIN good}
          \cup {[good EXCEPT !["handle"] = <<other>>] : other \in Handles \ {handle}}
          \cup {[good EXCEPT !["timestamp"] = <<"1700000001">>],
                [good EXCEPT !["sign"] = <<"bad">>],
                [good EXCEPT !["sign"] =
                   generateSign(IF kind = "callback" THEN "install" ELSE "callback",
                                RestOf(good), "secret")]}
          : handle \in Handles }

\* Values generateUniqueId() can return.
InstallIds == {"i1", "i2"}

SignedReturn(i, code) == hm' = [hm EXCEPT ![i].pc = "done", ![i].statusCode = code]

\* Either handler, up to its first await: the check of the required parameters.
Receive(i, kind, params) ==
  /\ hm[i].pc \in {"idle", "done"}
  /\ LET call == [IdleSigned EXCEPT !.kind = kind, !.params = params] IN
       IF \E key \in RequiredKeys(kind) : Falsy(params, key)
         THEN hm' = [hm EXCEPT ![i] = [call EXCEPT !.pc = "done", !.statusCode = 400]]
         ELSE hm' = [hm EXCEPT ![i] = [call EXCEPT !.pc = "verify"]]

SignedReceive(i) ==
  /\ \E kind \in {"install", "callback"} :
       \E params \in SignedRequests(kind) : Receive(i, kind, params)
  /\ UNCHANGED <<installationTable, shoplineSecret, usedIds>>
  /\ UNCHANGED <<bwpTokenStore, runVars, now, installVars, pkceVars, otherVars>>

\* getShoplineCredentials, then verifySign.
SignedVerify(i) ==
  /\ hm[i].pc = "verify"
  /\ \E credentialsOk \in BOOLEAN :
       IF ~credentialsOk THEN SignedReturn(i, 500)
       ELSE IF ~verifySign(hm[i].kind, hm[i].params, shoplineSecret.appSecret)
         THEN hm' = [hm EXCEPT ![i].pc = "done", ![i].statusCode = 401,
                               ![i].credentials = shoplineSecret]
       ELSE hm' = [hm EXCEPT ![i].credentials = shoplineSecret,
                             ![i].pc = IF hm[i].kind = "install" THEN "putItem" ELSE "token"]
  /\ UNCHANGED <<installationTable, shoplineSecret, usedIds>>
  /\ UNCHANGED <<bwpTokenStore, runVars, now, installVars, pkceVars, otherVars>>

\* The install handler: generateUniqueId, the put of the 'installing' item,
\* the authorize redirect.
SignedInstallPut(i) ==
  /\ hm[i].pc = "putItem"
  /\ \E installationId \in InstallIds \ usedIds, putOk \in BOOLEAN :
       /\ usedIds' = usedIds \cup {installationId}
       /\ IF putOk
            THEN /\ installationTable' =
                      [installationTable EXCEPT ![hm[i].params["handle"][1]] =
                         StoreItem("installing", installationId, 0, NoInst)]
                 /\ hm' = [hm EXCEPT ![i].pc = "done", ![i].statusCode = 302,
                                      ![i].wroteTable = TRUE]
            ELSE SignedReturn(i, 500) /\ UNCHANGED installationTable
  /\ UNCHANGED shoplineSecret
  /\ UNCHANGED <<bwpTokenStore, runVars, now, installVars, pkceVars, otherVars>>

\* The callback handler: the token request to the shop.
SignedToken(i) ==
  /\ hm[i].pc = "token"
  /\ \E outcome \in {"ok", "not ok", "throws"} :
       IF outcome = "ok"
         THEN hm' = [hm EXCEPT ![i].pc = "putSecret", ![i].calledToken = TRUE,
                               ![i].tokenData = [access_token |-> "at", refresh_token |-> "rt",
                                                 expires_in |-> 7200]]
         ELSE hm' = [hm EXCEPT ![i].pc = "done", ![i].statusCode = 500,
                               ![i].calledToken = TRUE]
  /\ UNCHANGED <<installationTable, shoplineSecret, usedIds>>
  /\ UNCHANGED <<bwpTokenStore, runVars, now, installVars, pkceVars, otherVars>>

\* putSecretValue: the credentials read at the start, with the handle's tokens replaced.
SignedPutSecret(i) ==
  /\ hm[i].pc = "putSecret"
  /\ \E putOk \in BOOLEAN :
       IF putOk
         THEN /\ shoplineSecret' =
                   [hm[i].credentials EXCEPT !.tokens[hm[i].params["handle"][1]] =
                      [accessToken |-> hm[i].tokenData.access_token,
                       refreshToken |-> hm[i].tokenData.refresh_token,
                       expiresAt |-> now + hm[i].tokenData.expires_in * 1000]]
              /\ hm' = [hm EXCEPT ![i].pc = "updateItem", ![i].wroteSecret = TRUE]
         ELSE SignedReturn(i, 500) /\ UNCHANGED shoplineSecret
  /\ UNCHANGED <<installationTable, usedIds>>
  /\ UNCHANGED <<bwpTokenStore, runVars, now, installVars, pkceVars, otherVars>>

\* updateItem: SET status, updatedAt and tokenExpiry on the handle's item
\* (creating the item when there is none), then the redirect.
SignedUpdateItem(i) ==
  /\ hm[i].pc = "updateItem"
  /\ \E updateOk \in BOOLEAN :
       IF updateOk
         THEN LET handle == hm[i].params["handle"][1]
                  tokenExpiry == now + hm[i].tokenData.expires_in * 1000
              IN /\ installationTable' =
                      [installationTable EXCEPT ![handle] =
                         IF installationTable[handle] = NoItem
                           THEN StoreItem("installed", NoInst, tokenExpiry, NoInst)
                           ELSE [installationTable[handle] EXCEPT !.status = "installed",
                                                                  !.tokenExpiry = tokenExpiry]]
                 /\ hm' = [hm EXCEPT ![i].pc = "done", ![i].statusCode = 302,
                                      ![i].wroteTable = TRUE]
         ELSE SignedReturn(i, 500) /\ UNCHANGED installationTable
  /\ UNCHANGED <<shoplineSecret, usedIds>>
  /\ UNCHANGED <<bwpTokenStore, runVars, now, installVars, pkceVars, otherVars>>

\* No shop has begun an installation.
HmacInit ==
  /\ installationTable = [h \in Handles \cup {UnknownHandle} |-> NoItem]
  /\ TokenStoreInit
  /\ RunsParked
  /\ AuthIdle

HmacNext ==
  \/ \E i \in HmacCalls : SignedReceive(i)
  \/ \E i \in HmacCalls : SignedVerify(i)
  \/ \E i \in HmacCalls : SignedInstallPut(i)
  \/ \E i \in HmacCalls : SignedToken(i)
  \/ \E i \in HmacCalls : SignedPutSecret(i)
  \/ \E i \in HmacCalls : SignedUpdateItem(i)

HmacSpec == HmacInit /\ [][HmacNext]_vars

\* A callback the platform signed for one of the shops.
CallbackArrives(i) ==
  /\ \E handle \in Handles :
       Receive(i, "callback", SignedParams("callback", handle, "secret"))
  /\ UNCHANGED <<installationTable, shoplineSecret, usedIds>>
  /\ UNCHANGED <<bwpTokenStore, runVars, now, installVars, pkceVars, otherVars>>

\* Callbacks of several shops in progress together, while time passes.
CallbackNext ==
  \/ \E i \in SignedCallIds : CallbackArrives(i)
  \/ \E i \in SignedCallIds : SignedVerify(i)
  \/ \E i \in SignedCallIds : SignedToken(i)
  \/ \E i \in SignedCallIds : SignedPutSecret(i)
  \/ \E i \in SignedCallIds : SignedUpdateItem(i)
  \/ Tick

CallbackSpec == HmacInit /\ [][CallbackNext]_vars

----------------------------------------------------------------------------
(* generateSign and verifySign on a query-string object whose keys keep the
   order in which they were supplied (callback.mjs, 24-47 and 178-204) *)

\* The longest parameter value, and the most reorderings of one request.
MaxValueLen == 2
MaxSwaps == 1

\* The characters of a parameter value: a plain one and the two delimiters of
\* the sign string.
Chars == {"a", "&", "="}
Values == UNION {[1..n -> Chars] : n \in 1..MaxValueLen}

\* An object is the sequence of its <<key, value>> entries in insertion order.
\* Object.keys(params)
ObjectKeys(entries) == [k \in 1..Len(entries) |-> entries[k][1]]

\* params[key]
ObjectOf(entries) ==
  [key \in {entries[k][1] : k \in 1..Len(entries)} |->
     (CHOOSE e \in {entries[k] : k \in 1..Len(entries)} : e[1] = key)[2]]

\* The place of a key in the code-unit order of the keys.
KeyRank(key) == CHOOSE r \in 1..Len(KeyOrder) : KeyOrder[r] = key

SortKeysAsSupplied(keys) == keys

RECURSIVE SortKeys(_)
\* .sort()
SortKeys(keys) ==
  IF keys = <<>> THEN <<>>
  ELSE LET least == CHOOSE key \in {keys[k] : k \in 1..Len(keys)} :
                      \A k \in 1..Len(keys) : KeyRank(key) <= KeyRank(keys[k])
       IN <<least>> \o SortKeys(SelectSeq(keys, LAMBDA key : key # least))

\* generateSign(params, secret): the keys sorted, the entries copied in that
\* order into sortedParams, joined and digested.
generateSignOf(kind, entries, secret) ==
  LET signString == JoinPairs(SortKeys(ObjectKeys(entries)), ObjectOf(entries)) IN
  IF kind = "callback" THEN <<"md5">> \o signString \o <<secret>>
  ELSE <<"hmac-sha256", secret>> \o signString

\* verifySign(params, secret)
verifySignOf(kind, entries, secret) ==
  LET sign == ObjectOf(entries)["sign"]
      rest == SelectSeq(entries, LAMBDA e : e[1] # "sign")
  IN sign = generateSignOf(kind, rest, secret)

\* The parameter sets signed: three parameters in any order, the handle
\* ranging over the values.
UnsignedRequests ==
  { [k \in 1..3 |-> <<order[k],
                      IF order[k] = "handle" THEN handle
                      ELSE IF order[k] = "appkey" THEN <<"a", "k">> ELSE <<"1", "7">>>>]
    : order \in Perms({"appkey", "handle", "timestamp"}), handle \in Values }

\* The platform signs the parameters and appends the signature.
SignRequest ==
  /\ sg.pc = "unsigned"
  /\ sg' = [sg EXCEPT !.pc = "signed",
              !.request = Append(sg.request,
                                 <<"sign", generateSignOf(sg.kind, sg.request, "secret")>>)]
  /\ UNCHANGED <<syncVars, now, installVars, pkceVars, hmacVars, sweepVars, aCall, ans>>

\* The parameters reach the handler in another order.
Reorder ==
  /\ sg.pc = "signed"
  /\ sg.swaps < MaxSwaps
  /\ \E k \in 1..(Len(sg.request) - 1) :
       sg' = [sg EXCEPT !.swaps = sg.swaps + 1,
                !.request = [sg.request EXCEPT ![k] = sg.request[k + 1],
                                               ![k + 1] = sg.request[k]]]
  /\ UNCHANGED <<syncVars, now, installVars, pkceVars, hmacVars, sweepVars, aCall, ans>>

\* One character of one parameter value is replaced by another.
Tamper ==
  /\ sg.pc \in {"signed", "verified"}
  /\ ~sg.tampered
  /\ \E k \in 1..Len(sg.request) :
       \E j \in 1..Len(sg.request[k][2]) :
          \E c \in Chars \cup {"0"} :
             /\ c # sg.request[k][2][j]
             /\ sg.request[k][1] = "sign" => c = "0"
             /\ sg' = [sg EXCEPT !.pc = "signed", !.tampered = TRUE,
                         !.request[k][2][j] = c]
  /\ UNCHANGED <<syncVars, now, installVars, pkceVars, hmacVars, sweepVars, aCall, ans>>

\* The handler calls verifySign on what it received.
Verify ==
  /\ sg.pc = "signed"
  /\ LET ok == verifySignOf(sg.kind, sg.request, "secret") IN
       sg' = [sg EXCEPT !.pc = "verified", !.accepted = ok,
                !.wasAccepted = sg.wasAccepted \/ (ok /\ ~sg.tampered)]
  /\ UNCHANGED <<syncVars, now, installVars, pkceVars, hmacVars, sweepVars, aCall, ans>>

SignInit ==
  /\ TableInit({}) /\ TokenStoreInit /\ RunsParked
  /\ now = 0 /\ InstallIdle /\ PkceIdle /\ getCommandBound = FALSE /\ HmacIdle
  /\ SweepIdle /\ aCall = NoCall /\ ans = NoInvocation
  /\ \E kind \in {"install", "callback"} :
       \E request \in UnsignedRequests :
          sg = [pc |-> "unsigned", kind |-> kind, request |-> request, swaps |-> 0,
                tampered |-> FALSE, accepted |-> FALSE, wasAccepted |-> FALSE]

SignNext == SignRequest \/ Reorder \/ Tamper \/ Verify

\* The pieces of the values whose sign strings are compared: the two
\* delimiters of the sign string and the name of a key.
DelimiterValues(n) == UNION {[1..k -> {"&", "=", "handle"}] : k \in 0..n}

\* The most pieces of a code and of a handle.
MaxCodeLen == 3
MaxHandleLen == 1

\* Parameter sets with a code alone, or with a code and a handle.
CanonRequests ==
  {<<<<"code", code>>>> : code \in DelimiterValues(MaxCodeLen)}
    \cup {<<<<"code", code>>, <<"handle", handle>>>> :
            code \in DelimiterValues(MaxCodeLen), handle \in DelimiterValues(MaxHandleLen)}

\* One of the parameter sets is about to be signed by generateSign (HMAC).
CanonInit ==
  /\ TableInit({}) /\ TokenStoreInit /\ RunsParked
  /\ now = 0 /\ InstallIdle /\ PkceIdle /\ getCommandBound = FALSE /\ HmacIdle
  /\ SweepIdle /\ aCall = NoCall /\ ans = NoInvocation
  /\ \E request \in CanonRequests :
       sg = [pc |-> "unsigned", kind |-> "install", request |-> request, swaps |-> 0,
             tampered |-> FALSE, accepted |-> FALSE, wasAccepted |-> FALSE]

CanonNext == SignRequest

CanonSpec == CanonInit /\ [][CanonNext]_vars

SignSpec == SignInit /\ [][SignNext]_vars

----------------------------------------------------------------------------
(* The token refresh handler (callback.mjs, 405-552) *)

\* The most consecutive failures counted for one handle.
MaxFailures == 2

\* 24 * 60 * 60 * 1000
DayMs == 24 * 60 * 60 * 1000

\* The expiry times of the tokens stored when the handler starts; -1 stands
\* for a handle without tokens.
ExpiryChoices == {0, DayMs, DayMs + 1, 2 * DayMs}

NeedsRefreshWhenExpired(tokenData, time) == tokenData.expiresAt <= time

\* !(tokenData.expiresAt > Date.now() + (24 * 60 * 60 * 1000))
NeedsRefresh(tokenData, time) == ~(tokenData.expiresAt > time + DayMs)

\* The loop goes on to the next entry, or leaves for the putSecretValue.
Advance(sweep) ==
  IF sweep.k < Len(sweep.order) THEN [sweep EXCEPT !.k = sweep.k + 1, !.pc = "loop"]
  ELSE [sweep EXCEPT !.pc = "put"]

CaughtEndsSweep(sweep) == [sweep EXCEPT !.pc = "done", !.statusCode = 500]

CaughtDropsTokens(sweep) ==
  Advance([sweep EXCEPT !.tokens[sweep.order[sweep.k]] =
             [accessToken |-> "", refreshToken |-> "", expiresAt |-> 0]])

\* The catch block inside the loop: the error is logged.
Caught(sweep) == Advance(sweep)

\* getShoplineCredentials, the test of tokens, Object.entries(tokens).
SweepStart ==
  /\ sw.pc \in {"idle", "done"}
  /\ \E credentialsOk \in BOOLEAN :
       IF ~credentialsOk THEN sw' = [IdleSweep EXCEPT !.pc = "done", !.statusCode = 500]
       ELSE IF \A h \in Handles : shoplineSecret.tokens[h] = NoItem
         THEN sw' = [IdleSweep EXCEPT !.pc = "done", !.statusCode = 200]
       ELSE \E order \in Perms({h \in Handles : shoplineSecret.tokens[h] # NoItem}) :
              sw' = [IdleSweep EXCEPT !.pc = "loop", !.credentials = shoplineSecret,
                                      !.tokens = shoplineSecret.tokens,
                                      !.order = order, !.k = 1]
  /\ UNCHANGED <<installationTable, shoplineSecret, refreshFailures>>
  /\ UNCHANGED <<bwpTokenStore, runVars, now, installVars, pkceVars, usedIds, hm, sg, aCall, ans>>

\* One entry: the test of expiresAt, and for a token to refresh the signed
\* request and its answer; tokens[handle] is replaced when the answer is ok.
SweepRefresh ==
  /\ sw.pc = "loop"
  /\ LET handle == sw.order[sw.k]
         seen == [sw EXCEPT !.checkedAt[handle] = now]
     IN IF ~NeedsRefresh(sw.tokens[handle], now)
          THEN sw' = Advance(seen) /\ UNCHANGED refreshFailures
          ELSE \E outcome \in {"ok", "not ok", "throws"} :
                 IF outcome = "ok"
                   THEN /\ sw' = [seen EXCEPT
                                    !.pc = "update",
                                    !.attempted = seen.attempted \cup {handle},
                                    !.refreshed = seen.refreshed \cup {handle},
                                    !.tokens[handle] =
                                       [accessToken |-> "at-new", refreshToken |-> "rt-new",
                                        expiresAt |-> now + 7200 * 1000]]
                        /\ refreshFailures' = [refreshFailures EXCEPT ![handle] = 0]
                   ELSE /\ sw' = Caught([seen EXCEPT
                                           !.attempted = seen.attempted \cup {handle}])
                        /\ refreshFailures' =
                             [refreshFailures EXCEPT ![handle] =
                                IF @ < MaxFailures THEN @ + 1 ELSE @]
  /\ UNCHANGED <<installationTable, shoplineSecret>>
  /\ UNCHANGED <<bwpTokenStore, runVars, now, installVars, pkceVars, usedIds, hm, sg, aCall, ans>>

\* updateItem: SET status, updatedAt and tokenExpiry on the handle's item.
SweepUpdateItem ==
  /\ sw.pc = "update"
  /\ LET handle == sw.order[sw.k]
         tokenExpiry == sw.tokens[handle].expiresAt
     IN \E updateOk \in BOOLEAN :
          IF updateOk
            THEN /\ installationTable' =
                      [installationTable EXCEPT ![handle] =
                         IF installationTable[handle] = NoItem
                           THEN StoreItem("token_refreshed", NoInst, tokenExpiry, NoInst)
                           ELSE [installationTable[handle] EXCEPT
                                   !.status = "token_refreshed",
                                   !.tokenExpiry = tokenExpiry]]
                 /\ sw' = Advance(sw)
            ELSE sw' = Caught(sw) /\ UNCHANGED installationTable
  /\ UNCHANGED <<shoplineSecret, refreshFailures>>
  /\ UNCHANGED <<bwpTokenStore, runVars, now, installVars, pkceVars, usedIds, hm, sg, aCall, ans>>

\* putSecretValue of the credentials read at the start with the tokens as
\* the loop left them.
SweepPut ==
  /\ sw.pc = "put"
  /\ \E putOk \in BOOLEAN :
       IF putOk
         THEN /\ shoplineSecret' = [sw.credentials EXCEPT !.tokens = sw.tokens]
              /\ sw' = [sw EXCEPT !.pc = "done", !.statusCode = 200]
         ELSE /\ sw' = [sw EXCEPT !.pc = "done", !.statusCode = 500]
              /\ UNCHANGED shoplineSecret
  /\ UNCHANGED <<installationTable, refreshFailures>>
  /\ UNCHANGED <<bwpTokenStore, runVars, now, installVars, pkceVars, usedIds, hm, sg, aCall, ans>>

\* Shops that went through the callback some time ago: their tokens in the
\* secret, their items in the installation table.
RefreshInit ==
  /\ \E expiries \in [Handles -> ExpiryChoices \cup {-1}] :
       /\ shoplineSecret =
            [appKey |-> "ak", appSecret |-> "secret",
             tokens |-> [h \in Handles |->
                           IF expiries[h] = -1 THEN NoItem
                           ELSE [accessToken |-> "at", refreshToken |-> "rt",
                                 expiresAt |-> expiries[h]]]]
       /\ installationTable =
            [h \in Handles \cup {UnknownHandle} |->
               IF h = UnknownHandle \/ expiries[h] = -1 THEN NoItem
               ELSE StoreItem("installed", NoInst, expiries[h], NoInst)]
  /\ TokenStoreInit /\ RunsParked
  /\ now = 0 /\ InstallIdle /\ PkceIdle /\ getCommandBound = FALSE
  /\ usedIds = {} /\ hm = [i \in SignedCallIds |-> IdleSigned]
  /\ OtherIdle

RefreshNext == SweepStart \/ SweepRefresh \/ SweepUpdateItem \/ SweepPut \/ Tick

RefreshSpec == RefreshInit /\ [][RefreshNext]_vars

\* `Bearer ${credentials.accessToken}`: the accessToken property of the parsed
\* secret itself, "undefined" when the secret has no such property.
AuthorizationOf(credentials) ==
  <<"Bearer", IF "accessToken" \in DOMAIN credentials THEN credentials.accessToken
              ELSE "undefined">>

\* getShoplineProducts(handle) and getShoplineProduct(handle, productId):
\* getShoplineCredentials, then the request with its Authorization header.
ShoplineRequest ==
  /\ \E handle \in Handles, credentialsOk \in BOOLEAN :
       IF credentialsOk
         THEN aCall' = [handle |-> handle, bearer |-> AuthorizationOf(shoplineSecret)]
         ELSE aCall' = NoCall
  /\ UNCHANGED <<syncVars, now, installVars, pkceVars, hmacVars, sg, sweepVars, ans>>

\* Requests to Platform A while shops go through the callback.
CatalogNext ==
  \/ CallbackArrives(1)
  \/ SignedVerify(1)
  \/ SignedToken(1)
  \/ SignedPutSecret(1)
  \/ SignedUpdateItem(1)
  \/ ShoplineRequest

CatalogSpec == HmacInit /\ [][CatalogNext]_vars

----------------------------------------------------------------------------
(* The auth router (callback.mjs, 668-716) and the product handler (crud.mjs, 89-151) *)

\* How an invocation ends: with a response object, with a value that is no
\* response (undefined), or with a rejected promise.
Response(statusCode) == [outcome |-> "response", statusCode |-> statusCode]
NoResponse == [outcome |-> "undefined", statusCode |-> 0]
Rejected == [outcome |-> "rejected", statusCode |-> 0]

\* rawPath and path, segment by segment, and the HTTP methods.
RouterPaths ==
  {<<"shopline", "install">>, <<"bwp", "launch">>, <<"bwp", "install">>,
   <<"bwp", "settings">>, <<"bwp", "uninstall">>, <<"bwp", "other">>, <<"other">>}
ProductPaths == {<<"products">>, <<"products", "p1">>, <<"other">>}
Methods == {"GET", "POST", "PUT", "DELETE"}

\* handleBWP: the sub-handler of the path and method. handleBWPLaunch has no
\* catch; the other three answer 500 from their own catch.
handleBWP(path, method, ok) ==
  IF path = <<"bwp", "launch">> /\ method = "GET"
    THEN IF ok THEN Response(302) ELSE Rejected
  ELSE IF \/ path = <<"bwp", "install">> /\ method = "GET"
          \/ path = <<"bwp", "settings">> /\ method = "GET"
          \/ path = <<"bwp", "uninstall">> /\ method = "POST"
    THEN Response(IF ok THEN 200 ELSE 500)
  ELSE Response(404)

\* The exported handler: event.requestContext.http.method throws inside the
\* try when the event has no requestContext; the promise of a sub-handler is
\* returned without await, so its rejection passes the catch; handleShopline
\* has an empty body.
Router(hasContext, path, method, ok) ==
  IF ~hasContext THEN Response(500)
  ELSE IF path[1] = "shopline" THEN NoResponse
  ELSE IF path[1] = "bwp" THEN handleBWP(path, method, ok)
  ELSE Response(404)

\* The product handler: the handle, getStoreInfo, then the switch on the
\* method; a GET or PUT whose path does not match leaves the switch by break
\* and the function ends without a return.
ProductHandler(handle, method, path, storeFound, linked, ok) ==
  IF handle = "" THEN Response(400)
  ELSE IF ~storeFound THEN Response(500)
  ELSE IF method = "GET"
    THEN IF path = <<"products">> THEN Response(IF ok THEN 200 ELSE 500)
         ELSE NoResponse
  ELSE IF method = "PUT"
    THEN IF Len(path) >= 2 /\ path[1] = "products"
           THEN Response(IF ok /\ linked THEN 200 ELSE 500)
           ELSE NoResponse
  ELSE Response(404)

\* An invocation of the auth router.
Route ==
  /\ \E hasContext \in BOOLEAN, path \in RouterPaths, method \in Methods, ok \in BOOLEAN :
       ans' = [NoInvocation EXCEPT !.handler = "auth", !.hasContext = hasContext,
                                   !.path = path, !.method = method, !.ok = ok,
                                   !.result = Router(hasContext, path, method, ok)]
  /\ UNCHANGED <<syncVars, now, installVars, pkceVars, hmacVars, sg, sweepVars, aCall>>

\* An invocation of the product handler.
Product ==
  /\ \E handle \in {"", "shop-1"}, method \in Methods, path \in ProductPaths,
        storeFound \in BOOLEAN, linked \in BOOLEAN, ok \in BOOLEAN :
       ans' = [NoInvocation EXCEPT !.handler = "product", !.handle = handle,
                                   !.path = path, !.method = method,
                                   !.storeFound = storeFound, !.linked = linked, !.ok = ok,
                                   !.result = ProductHandler(handle, method, path,
                                                             storeFound, linked, ok)]
  /\ UNCHANGED <<syncVars, now, installVars, pkceVars, hmacVars, sg, sweepVars, aCall>>

RouterNext == Route \/ Product

RouterSpec == InstallInit /\ [][RouterNext]_vars

----------------------------------------------------------------------------
\* A callback of one shop in progress while the sweep runs.
OverlapNext ==
  \/ SweepStart
  \/ SweepRefresh
  \/ SweepUpdateItem
  \/ SweepPut
  \/ CallbackArrives(1)
  \/ SignedVerify(1)
  \/ SignedToken(1)
  \/ SignedPutSecret(1)
  \/ SignedUpdateItem(1)

\* One shop went through the callback some time ago and its token has
\* expired, the other never did.
OverlapInit ==
  /\ RefreshInit
  /\ shoplineSecret.tokens["shop-1"] # NoItem
  /\ shoplineSecret.tokens["shop-1"].expiresAt = 0
  /\ shoplineSecret.tokens["shop-2"] = NoItem

OverlapSpec == OverlapInit /\ [][OverlapNext]_vars

----------------------------------------------------------------------------
(* Properties of the sync handlers *)

\* The linked stores of the current scan, and the products a store has on A.
LinkedStores == {k \in 1..Len(bStores) : bStores[k].bwpInstallationId # NoInst}
PushesFor(log, h, p) == {k \in 1..Len(log) : log[k].handle = h /\ log[k].id = p}
SameFields(a, b) ==
  a.title = b.title /\ a.description = b.description /\ a.price = b.price
InSync(h, inst) ==
  \A p \in Pids : catA[h][p] # Absent =>
     catB[inst][p] # Absent /\ SameFields(catA[h][p], catB[inst][p])

\* C1 (the claim as stated): when a batch run has ended and exactly one store k
\* fails all its platform calls, every other linked store has been reconciled:
\* each of its Platform-A products has an equal counterpart on Platform B.
C1_FaultIsolation ==
  (bPc = "done" /\ bUndisturbed /\ Cardinality(faulty) = 1) =>
     \A k \in LinkedStores :
        bStores[k].id \notin faulty => InSync(bStores[k].id, bStores[k].bwpInstallationId)

\* C4: while the batch run works through a store's product list, every product
\* already handled got a push of A's title, description and price exactly when
\* the fetched B list held no product of that id (create) or held one that
\* differs in title, description or price (update); an equal one got no push.
C4_ActionPerProduct ==
  bPc = "prod" =>
    \A j \in 1..(bJ - 1) :
      LET a == bA[j]
          same == {k \in 1..Len(bB) : bB[k].id = a.id}
          pushes == PushesFor(pushLog, bStores[bI].id, a.id)
          needed == \/ same = {}
                    \/ \E k \in same : ~SameFields(a, bB[k])
      IN /\ needed => /\ Cardinality(pushes) = 1
                      /\ \A k \in pushes :
                            /\ pushLog[k].data = [title |-> a.title,
                                 description |-> a.description, price |-> a.price]
                            /\ pushLog[k].action = (IF same = {} THEN "create" ELSE "update")
         /\ ~needed => pushes = {}

C4_Witness ==
  /\ bPc = "prod" /\ bJ = 3 /\ Len(bA) = 2
  /\ \E k \in 1..Len(pushLog) : pushLog[k].action = "create" /\ pushLog[k].handle = bStores[bI].id
  /\ \E j \in 1..2 : PushesFor(pushLog, bStores[bI].id, bA[j].id) = {}

\* C5: a batch run that follows a run which returned 200, with no platform-side
\* edit since that earlier run started, issues no push to Platform B.
C5_SecondRunSkipsAll ==
  (bAfterQuiet /\ bUndisturbed) =>
     /\ pushLog = <<>>
     /\ \A c \in bCalls : c.op # "put"

C5_Witness ==
  /\ bAfterQuiet /\ bUndisturbed /\ bPc = "done" /\ bResp = 200
  /\ prevPushes > 0
  /\ \E c \in bCalls : c.platform = "B" /\ c.op = "list"

\* C7: after a batch run that returned 200 with no platform-side edit meanwhile,
\* every Platform-A product of every linked store has a counterpart on B with
\* the same title, description and price; a product whose counterpart differed
\* in the price alone got exactly one push, carrying A's price.
PriceOnlyDiffered(h, inst, p) ==
  /\ catA[h][p] # Absent /\ catB0[inst][p] # Absent
  /\ catA[h][p].title = catB0[inst][p].title
  /\ catA[h][p].description = catB0[inst][p].description
  /\ catA[h][p].price # catB0[inst][p].price

C7_BMatchesAAfterRun ==
  (bPc = "done" /\ bResp = 200 /\ bUndisturbed) =>
     \A k \in LinkedStores :
        LET h == bStores[k].id
            inst == bStores[k].bwpInstallationId
        IN /\ InSync(h, inst)
           /\ \A p \in Pids : PriceOnlyDiffered(h, inst, p) =>
                 /\ Cardinality(PushesFor(pushLog, h, p)) = 1
                 /\ \A n \in PushesFor(pushLog, h, p) :
                       pushLog[n].data.price = catA[h][p].price

C7_Witness ==
  /\ bPc = "done" /\ bResp = 200 /\ bUndisturbed
  /\ \E k \in LinkedStores, p \in Pids :
        PriceOnlyDiffered(bStores[k].id, bStores[k].bwpInstallationId, p)

\* A product that exists on Platform B only, for the store's installation.
BOnly(h, p) == catA[h][p] = Absent /\ catB[InstOf(h)][p] # Absent

\* C6 (the claim as stated): no run writes to Platform A, and no run issues a
\* call of any kind for a product id that exists on Platform B only.
C6_NoCallForBOnly ==
  /\ \A c \in bCalls \cup wCalls : ~(c.platform = "A" /\ c.op = "put")
  /\ \A h \in Handles, p \in Pids : BOnly(h, p) =>
        \A c \in bCalls \cup wCalls : ~(c.handle = h /\ c.pid = p)

\* C6 (amended): no run writes to Platform A; a batch run issues no call for a
\* product id that exists on Platform B only; no run issues a push for it, and
\* no step changes it. (An incremental run may read it from either platform.)
C6_NoWriteForBOnly ==
  /\ [](/\ \A c \in bCalls \cup wCalls : ~(c.platform = "A" /\ c.op = "put")
        /\ \A h \in Handles, p \in Pids : BOnly(h, p) =>
              /\ \A c \in bCalls : ~(c.handle = h /\ c.pid = p)
              /\ \A c \in wCalls : ~(c.handle = h /\ c.pid = p /\ c.op = "put")
              /\ PushesFor(pushLog, h, p) = {} /\ PushesFor(wPushes, h, p) = {})
  /\ [][\A h \in Handles, p \in Pids :
          BOnly(h, p) => catB'[InstOf(h)][p] = catB[InstOf(h)][p]]_vars

C6_Witness ==
  \E h \in Handles, p \in Pids :
     /\ BOnly(h, p)
     /\ bPc = "done" /\ bResp = 200 /\ Len(pushLog) > 0
     /\ Call("B", "list", h, "all") \in bCalls
     /\ wPc = "done" /\ wReq.handle = h /\ wReq.productId = p
     /\ Call("A", "get", h, p) \in wCalls

\* C8: a webhook delivery that repeats the previous delivery's payload, with no
\* platform-side edit and no other push since the first delivery began, creates
\* nothing; after a first delivery that returned 200 the replay issues no push
\* at all and leaves Platform B as the first delivery left it.
C8_ReplayIdempotent ==
  wReplay =>
     /\ \A k \in 1..Len(wPushes) : wPushes[k].existed
     /\ wPrevResp = 200 => (catB = wStartB /\ wPushes = <<>> /\ wPc # "push")

C8_Witness ==
  wReplay /\ wPc = "done" /\ wResp = 200 /\ wPrevResp = 200 /\ wPrevPushes = 1

\* C9 (the claim as stated): once the webhook handler has read the product from
\* both platforms, it pushes exactly when the batch loop would create or update
\* the product for the same contents.
C9_SameActionAsBatch ==
  (wPc \in {"push", "done"} /\ wA # None /\ wSeenB # None) =>
     LET shoplineProduct == [id |-> wReq.productId, title |-> wA.title,
                             description |-> wA.description, price |-> wA.price,
                             updatedAt |-> wA.updatedAt]
         bwpProducts == IF wSeenB = Absent THEN <<>>
                        ELSE <<[id |-> wReq.productId, title |-> wSeenB.title,
                                description |-> wSeenB.description, price |-> wSeenB.price]>>
     IN (BatchDecision(shoplineProduct, bwpProducts) \in {"create", "update"})
          <=> (wPc = "push" \/ Len(wPushes) > 0)

C3_StateDeletedOnUse ==
  /\ \A state \in pkSucceeded : bwpStateTable[state] = NoItem
  /\ pk.afterSuccess => (pk.pc = "done" /\ pk.statusCode = 500 /\ ~pk.wrote)

\* Whether a signed request carries every required parameter, and whether its
\* sign is the one recomputed from its other parameters and the app secret.
HasRequired(call) == \A key \in RequiredKeys(call.kind) : ~Falsy(call.params, key)
SignMatches(call) ==
  call.params["sign"] = generateSign(call.kind, RestOf(call.params), shoplineSecret.appSecret)
Touched(call) == call.calledToken \/ call.wroteSecret \/ call.wroteTable

\* C10 (the claim as stated): a signed install or callback request writes or
\* calls the token endpoint only if it has every required parameter and its
\* sign matches; every other request is answered 400 or 401.
C10_RejectsWith400Or401 ==
  \A i \in HmacCalls :
     /\ Touched(hm[i]) => (HasRequired(hm[i]) /\ SignMatches(hm[i]))
     /\ (hm[i].pc = "done" /\ ~(HasRequired(hm[i]) /\ SignMatches(hm[i])))
          => hm[i].statusCode \in {400, 401}

\* C10 (amended): a signed install or callback request writes or calls the
\* token endpoint only if it has every required parameter and its sign
\* matches; a request lacking a parameter is answered 400, and one whose sign
\* does not match is answered 401, or 500 when the app credentials could not
\* be read; in each of these cases nothing is written and no token call made.
C10_OnlySignedRequestsAct ==
  \A i \in HmacCalls :
     /\ Touched(hm[i]) => (HasRequired(hm[i]) /\ SignMatches(hm[i]))
     /\ (hm[i].pc = "done" /\ ~HasRequired(hm[i])) => hm[i].statusCode = 400
     /\ (hm[i].pc = "done" /\ HasRequired(hm[i]) /\ ~SignMatches(hm[i]))
          => \/ hm[i].statusCode = 401
             \/ hm[i].statusCode = 500 /\ hm[i].credentials = None

C10_Witness ==
  /\ \E h \in Handles : installationTable[h] # NoItem /\ shoplineSecret.tokens[h] # NoItem
  /\ \E i \in HmacCalls :
        /\ hm[i].pc = "done" /\ hm[i].statusCode = 401
        /\ HasRequired(hm[i]) /\ ~SignMatches(hm[i])

----------------------------------------------------------------------------
(* Properties of generateSign and verifySign *)

\* C11: for a fixed secret and parameter set, verifySign accepts the signature
\* generateSign produced over the parameters without sign, in whatever order
\* the parameters arrive, and rejects the request once a single character of a
\* parameter value has been changed; the verdict is the one verifySign gives
\* on the same parameters seen as a key -> value map.
C11_AcceptsSignedRejectsTampered ==
  sg.pc = "verified" =>
    /\ sg.accepted <=> ~sg.tampered
    /\ sg.accepted <=> verifySign(sg.kind, ObjectOf(sg.request), "secret")

\* A reordered request was accepted, then one character was changed and the
\* request was rejected.
C11_Witness ==
  /\ sg.pc = "verified" /\ sg.swaps > 0
  /\ sg.wasAccepted /\ sg.tampered /\ ~sg.accepted

----------------------------------------------------------------------------
(* Properties of the endpoints behind validateVerificationToken *)

\* C12: on each of the install, settings and uninstall endpoints, two requests
\* that both fail the verification and differ only in why (token missing,
\* signature invalid, request hash different) get the same status code and
\* the same body.
C12_SameAnswerForEachCause ==
  [][(/\ gr.cause # "" /\ gr'.cause # ""
      /\ gr'.endpoint = gr.endpoint /\ gr'.code = gr.code /\ gr'.state = gr.state)
     => (gr'.statusCode = gr.statusCode /\ gr'.body = gr.body)]_vars

\* An install request has failed the verification for one reason, and the
\* same request has then failed it because its request hash differs.
C12_Witness ==
  /\ gr.endpoint = "install" /\ gr.afterOtherCause
  /\ gr.cause = "Actual request hash does not match the expected hash"
  /\ gr.statusCode = 500

----------------------------------------------------------------------------
(* Properties of the lifetime of an install state *)

\* C13: a handleCallback call whose state record is past its expiry when the
\* call looks it up fails with an invalid-state error, makes no token request
\* and stores no credential.
C13_ExpiredStateIsRefused ==
  \A i \in CallIds :
     cb[i].stateExpired =>
       /\ cb[i].pc = "done" /\ cb[i].statusCode = 500 /\ cb[i].error = "Invalid state"
       /\ ~cb[i].wrote

\* C14: once a handleCallback call for a state has failed at the token request,
\* no later call with the same state ends with a successful token request and
\* a stored credential.
C14_NoSuccessAfterFailedExchange ==
  \A i \in CallIds : cb[i].afterExchangeFailure => ~cb[i].wrote

----------------------------------------------------------------------------
(* Properties of the credential store *)

\* The handle of a signed call.
HandleOf(i) == hm[i].params["handle"][1]

\* C15: the putSecretValue of a callback for handle h leaves in the store, for
\* h, exactly the tokens of the exchange with expiresAt the time of the write
\* plus expires_in seconds, and leaves the record of every other handle as it
\* was; a callback whose token request is rejected changes no record.
C15_CallbackWritesOnlyItsHandle ==
  [][\A i \in SignedCallIds :
       /\ (hm[i].pc = "putSecret" /\ hm'[i].wroteSecret) =>
            /\ shoplineSecret'.tokens[HandleOf(i)] =
                 [accessToken |-> hm[i].tokenData.access_token,
                  refreshToken |-> hm[i].tokenData.refresh_token,
                  expiresAt |-> now + hm[i].tokenData.expires_in * 1000]
            /\ \A h \in Handles \ {HandleOf(i)} :
                  shoplineSecret'.tokens[h] = shoplineSecret.tokens[h]
       /\ (hm[i].pc = "token" /\ hm'[i].pc = "done") =>
            shoplineSecret' = shoplineSecret]_vars

----------------------------------------------------------------------------
(* Properties of the token refresh handler *)

\* The entries the loop has dealt with, and the tokens the handler read.
Examined == {sw.order[j] : j \in 1..(IF sw.pc = "loop" THEN sw.k - 1
                                     ELSE IF sw.pc = "update" THEN sw.k - 1
                                     ELSE Len(sw.order))}
Before(h) == sw.credentials.tokens[h]

\* C16: a refresh call is issued for exactly the stored tokens whose expiresAt
\* is at most 24 hours after the time at which the handler examines them
\* (tokens already expired included); for a token expiring later no call is
\* issued and the stored record stays as it was.
C16_RefreshesExactlyTheWindow ==
  sw.pc \in {"loop", "update", "put", "done"} /\ sw.order # <<>> =>
    \A h \in Examined :
       /\ h \in sw.attempted <=> Before(h).expiresAt <= sw.checkedAt[h] + DayMs
       /\ h \notin sw.attempted =>
            /\ sw.tokens[h] = Before(h)
            /\ shoplineSecret.tokens[h] = Before(h)

\* A sweep that ended well after the clock moved: of its two tokens, it
\* refreshed the one that had already expired and left alone the one expiring
\* more than 24 hours later.
C16_Witness ==
  /\ sw.pc = "done" /\ sw.statusCode = 200 /\ Len(sw.order) = 2
  /\ \E h \in sw.attempted : Before(h).expiresAt < sw.checkedAt[h]
  /\ \E h \in Handles \ sw.attempted : Before(h).expiresAt > sw.checkedAt[h] + DayMs

\* The handles whose refresh call failed in the current sweep.
FailedRefresh == IF sw.order = <<>> THEN {} ELSE sw.attempted \ sw.refreshed

\* C17: when the refresh call for a handle fails, the handle's stored
\* accessToken, refreshToken and expiresAt stay exactly what they were before
\* the sweep, during it and after its putSecretValue, and the sweep does not
\* touch the handle's item in the installation table (its status is not set
\* to a revoked one).
C17_FailedRefreshKeepsRecord ==
  /\ [](\A h \in FailedRefresh :
          /\ sw.tokens[h] = Before(h)
          /\ shoplineSecret.tokens[h] = Before(h)
          /\ installationTable[h] # NoItem
          /\ installationTable[h].status \notin {"revoked", "needs_reauth"})
  /\ [][\A h \in Handles :
          (sw'.order # <<>> /\ h \in sw'.attempted \ sw'.refreshed)
            => installationTable'[h] = installationTable[h]]_vars

\* A sweep saved the secret after the refresh call of one of its handles had
\* failed.
C17_Witness ==
  /\ sw.pc = "done" /\ sw.statusCode = 200
  /\ FailedRefresh # {}
  /\ \E h \in FailedRefresh : shoplineSecret.tokens[h].accessToken = "at"

\* C18: a failure while refreshing one handle, in the refresh call or in the
\* update of the installation table, does not end the sweep: once the loop is
\* over every stored token has been examined and every one within the window
\* has been attempted, and after the putSecretValue the store holds the new
\* tokens of every handle whose refresh call succeeded, in whatever order the
\* handles came.
C18_FailureDoesNotStopSweep ==
  (sw.pc \in {"put", "done"} /\ sw.order # <<>>) =>
    /\ \A h \in Handles :
          Before(h) # NoItem =>
            /\ sw.checkedAt[h] >= 0
            /\ Before(h).expiresAt <= sw.checkedAt[h] + DayMs => h \in sw.attempted
    /\ (sw.pc = "done" /\ sw.statusCode = 200) =>
          \A h \in sw.refreshed :
             /\ shoplineSecret.tokens[h] = sw.tokens[h]
             /\ shoplineSecret.tokens[h].accessToken = "at-new"

\* The refresh call of the first handle failed, the second handle was
\* refreshed and its new tokens were saved.
C18_Witness ==
  /\ sw.pc = "done" /\ sw.statusCode = 200 /\ Len(sw.order) = 2
  /\ sw.order[1] \in sw.attempted \ sw.refreshed
  /\ sw.order[2] \in sw.refreshed
  /\ shoplineSecret.tokens[sw.order[2]].accessToken = "at-new"

\* C19: a credential whose refresh call has failed in MaxFailures sweeps in a
\* row is revoked or flagged needs_reauth.
C19_RevokedAfterRepeatedFailures ==
  \A h \in Handles :
     refreshFailures[h] >= MaxFailures =>
       /\ installationTable[h] # NoItem
       /\ installationTable[h].status \in {"revoked", "needs_reauth"}

----------------------------------------------------------------------------
(* Properties of the stores without a Buy-with-Prime installation *)

----------------------------------------------------------------------------
(* Properties of the answers of the webhook handler *)

\* C21: a webhook for a store whose item has no bwpInstallationId is skipped:
\* the handler makes no platform call and its answer is not a 5xx.
C21_UnlinkedWebhookIsSkipped ==
  (/\ wPc = "done" /\ wReq # None /\ ~wReq.malformed
   /\ wReq.handle \in Handles /\ wReq.productId # ""
   /\ installationTable[wReq.handle] # NoItem
   /\ installationTable[wReq.handle].bwpInstallationId = NoInst)
  => (wCalls = {} /\ wResp < 500)

\* C27: a webhook whose body is malformed or lacks handle or productId is
\* answered with a 4xx and causes no store read and no platform call.
C27_BadBodyIsClientError ==
  (/\ wPc = "done" /\ wReq # None
   /\ (wReq.malformed \/ wReq.handle = "" \/ wReq.productId = ""))
  => (wResp \in 400..499 /\ wInst = NoInst /\ wCalls = {})

----------------------------------------------------------------------------
(* Properties of the product loop of the batch handler *)

\* The batch handler is at a product and takes its step.
AtProduct ==
  /\ bPc = "prod" /\ bJ \in 1..Len(bA)
  /\ <<bPc, bJ, bResp>>' # <<bPc, bJ, bResp>>

\* C22: every product the run reconciles yields exactly one outcome record
\* (created, updated, skipped or failed) for that product, also when the push
\* for it fails.
C22_OneOutcomePerProduct ==
  [][AtProduct =>
       /\ Len(bLog') = Len(bLog) + 1
       /\ bLog'[Len(bLog')].handle = bStores[bI].id
       /\ bLog'[Len(bLog')].id = bA[bJ].id
       /\ bLog'[Len(bLog')].outcome \in {"created", "updated", "skipped", "failed"}]_vars

\* C23: a failed push for one product does not end the run: the loop goes on
\* to the next product of the store and no error response is produced.
C23_FailedPushDoesNotEndRun ==
  [][AtProduct => (bPc' = "prod" /\ bJ' = bJ + 1 /\ bResp' = bResp)]_vars

----------------------------------------------------------------------------
(* Properties of the link between a store and its installation *)

\* C24: once handleBWPInstall has answered 200 for an installation, a token
\* is stored for it and the installation item of a store carries its id as
\* bwpInstallationId, so that the sync handlers treat the store as linked.
C24_InstallLinksTheStore ==
  (pk.pc = "done" /\ pk.statusCode = 200) =>
    /\ bwpTokenStore[pk.installationId] # NoItem
    /\ \E h \in Handles :
          /\ installationTable[h] # NoItem
          /\ installationTable[h].bwpInstallationId = pk.installationId

----------------------------------------------------------------------------
(* Properties of callbacks in progress together *)

\* C25: when two callbacks for two different handles have both ended with the
\* success redirect, the credential store holds the token record of both
\* handles, whatever the order of their reads and writes of the store.
C25_BothRecordsSurvive ==
  \A i, j \in SignedCallIds :
    (/\ i # j
     /\ hm[i].pc = "done" /\ hm[i].statusCode = 302 /\ hm[i].wroteSecret
     /\ hm[j].pc = "done" /\ hm[j].statusCode = 302 /\ hm[j].wroteSecret
     /\ HandleOf(i) # HandleOf(j))
    => /\ shoplineSecret.tokens[HandleOf(i)] # NoItem
       /\ shoplineSecret.tokens[HandleOf(j)] # NoItem

----------------------------------------------------------------------------
(* Properties of the start of the state-keyed install *)

\* The shops of the form <label>.myshopline.com among the inputs.
WellFormedShops == {<<"b", "-", "1", ".myshopline.com">>}

\* The states with a stored transaction.
Stored(table) == {s \in States : table[s] # NoItem}

\* C26: an install request with a missing shop, or with a shop that is not
\* <label>.myshopline.com, is answered with an error, stores no transaction
\* and issues no redirect; a request with a valid shop that is answered with
\* the redirect has stored exactly one transaction, under a state that was
\* never issued before.
C26_InstallValidatesTheShop ==
  [][hResp' # hResp =>
       IF hResp'.shop \notin WellFormedShops
         THEN /\ hResp'.statusCode >= 400
              /\ hResp'.error # ""
              /\ installStateTable' = installStateTable
         ELSE hResp'.statusCode = 302 =>
                /\ hResp'.state \in States \ issuedStates
                /\ installStateTable[hResp'.state] = NoItem
                /\ installStateTable'[hResp'.state] # NoItem
                /\ installStateTable'[hResp'.state].shop = hResp'.shop
                /\ \A s \in States \ {hResp'.state} :
                      installStateTable'[s] = installStateTable[s]]_vars

\* A valid request has stored its transaction, and a later request with a
\* malformed shop was answered with an error and stored nothing.
C26_Witness ==
  /\ hResp.statusCode = 500
  /\ hResp.shop # <<>>
  /\ hResp.shop \notin WellFormedShops
  /\ Cardinality(issuedStates) = 1
  /\ Stored(installStateTable) = issuedStates

\* C29: of two handleCallback calls with the same state that are in progress
\* together, at most one exchanges the code for a token and stores the
\* credential.
C29_OneCallbackPerState ==
  \A i, j \in CallIds :
    (i # j /\ cb[i].state # "" /\ cb[i].state = cb[j].state)
      => ~(/\ cb[i].pc = "done" /\ cb[i].statusCode = 302 /\ cb[i].wrote
           /\ cb[j].pc = "done" /\ cb[j].statusCode = 302 /\ cb[j].wrote)

----------------------------------------------------------------------------
(* Properties of the uninstall endpoint *)

\* C28: once an uninstall request with a valid verification token for an
\* installation has been answered, the token store holds no credential for
\* that installation (the record is deleted or marked revoked), so that no
\* later run can use it.
C28_UninstallRemovesTheToken ==
  [][(gr' # gr /\ gr'.endpoint = "uninstall" /\ gr'.statusCode = 200)
       => bwpTokenStore'[gr'.installationId] = NoItem]_vars

----------------------------------------------------------------------------
(* Properties of the order of install and callback *)

\* C30: a handle has an 'installed' item or a stored token only after an
\* install request for it was accepted, which leaves the item carrying the
\* installationId issued with the authorize redirect; a signed callback for a
\* handle with no such item produces neither.
C30_InstalledOnlyAfterInstall ==
  \A h \in Handles :
    (\/ shoplineSecret.tokens[h] # NoItem
     \/ (installationTable[h] # NoItem /\ installationTable[h].status = "installed"))
    => /\ installationTable[h] # NoItem
       /\ installationTable[h].installationId # NoInst

----------------------------------------------------------------------------
(* Properties of the transaction record behind an authorize redirect *)

\* C31: when a launch returns the authorize redirect, the state it carries
\* has a stored transaction record whose expiry is one hour after the time of
\* issue; a launch whose put fails returns no redirect.
C31_RedirectHasExpiringRecord ==
  [][(lResp' # lResp /\ lResp'.statusCode = 302) =>
       /\ bwpStateTable'[lResp'.state] # NoItem
       /\ "expiry" \in DOMAIN bwpStateTable'[lResp'.state]
       /\ bwpStateTable'[lResp'.state].expiry = (now \div 1000) + StateTtl]_vars

----------------------------------------------------------------------------
(* Properties of the PKCE verifier *)

\* C32: the launch that returns a redirect with state s embeds the challenge
\* derived from the verifier it stored under s, and the stored verifier never
\* changes; the code_verifier an install callback with state s sends to the
\* token endpoint is that stored verifier; a callback whose state has no
\* stored record sends no token request.
C32_SendsTheVerifierOfItsState ==
  [][/\ (lResp' # lResp /\ lResp'.statusCode = 302) =>
          /\ bwpStateTable'[lResp'.state] # NoItem
          /\ lResp'.codeChallenge =
               generateCodeChallenge(bwpStateTable'[lResp'.state].codeVerifier)
     /\ \A s \in PkceStates :
          bwpStateTable[s] # NoItem =>
            /\ bwpStateTable'[s] # NoItem
            /\ bwpStateTable'[s].codeVerifier = bwpStateTable[s].codeVerifier
     /\ (pk'.sentVerifier # pk.sentVerifier /\ pk'.sentVerifier # <<>>) =>
          /\ bwpStateTable[pk'.state] # NoItem
          /\ pk'.sentVerifier = bwpStateTable[pk'.state].codeVerifier
     /\ (pk.pc \in {"idle", "done"} /\ pk'.state \in PkceStates
         /\ bwpStateTable[pk'.state] = NoItem) =>
          (pk'.pc = "done" /\ pk'.sentVerifier = <<>>)]_vars

\* Two launches have stored their verifiers, and the callback with the state
\* of the second one has sent a verifier and stored the token.
C32_Witness ==
  /\ \A s \in PkceStates : bwpStateTable[s] # NoItem
  /\ pk.pc = "done" /\ pk.statusCode = 200
  /\ pk.state = "0.2"
  /\ pk.sentVerifier = bwpStateTable["0.2"].codeVerifier
  /\ pk.sentVerifier # bwpStateTable["0.1"].codeVerifier

----------------------------------------------------------------------------
(* Properties of a callback that overlaps a refresh sweep *)

\* C33: a token record that a callback stored for a handle after the sweep
\* read the credentials is still in the store, as the callback wrote it, once
\* the sweep has made its final write (for a handle the sweep did not itself
\* refresh).
C33_SweepKeepsCallbackRecord ==
  [][(sw.pc = "put" /\ sw'.pc = "done" /\ sw'.statusCode = 200) =>
       \A h \in Handles \ sw.refreshed :
          shoplineSecret.tokens[h] # sw.credentials.tokens[h] =>
            shoplineSecret'.tokens[h] = shoplineSecret.tokens[h]]_vars

----------------------------------------------------------------------------
(* Properties of the two stores after a refresh sweep *)

\* C34: once a sweep has returned, for every handle it refreshed whose item
\* in the installation table shows status token_refreshed with the tokenExpiry
\* of the new tokens, the credential store holds those new tokens: accessToken,
\* refreshToken and expiresAt equal to that tokenExpiry.
C34_TableAndStoreAgree ==
  (sw.pc = "done" /\ sw.order # <<>>) =>
    \A h \in sw.refreshed :
      (/\ installationTable[h] # NoItem
       /\ installationTable[h].status = "token_refreshed"
       /\ installationTable[h].tokenExpiry = sw.tokens[h].expiresAt)
      => /\ shoplineSecret.tokens[h] # NoItem
         /\ shoplineSecret.tokens[h].accessToken = sw.tokens[h].accessToken
         /\ shoplineSecret.tokens[h].refreshToken = sw.tokens[h].refreshToken
         /\ shoplineSecret.tokens[h].expiresAt = installationTable[h].tokenExpiry

----------------------------------------------------------------------------
(* Properties of the token presented to Platform A *)

\* C35: a request to Platform A for a handle that has a stored token record
\* carries, as bearer, the accessToken stored for that handle at the time of
\* the request: not another handle's token and not an absent one.
C35_PresentsTheHandlesToken ==
  [][(aCall' # aCall /\ aCall' # NoCall
      /\ shoplineSecret.tokens[aCall'.handle] # NoItem)
       => aCall'.bearer = <<"Bearer", shoplineSecret.tokens[aCall'.handle].accessToken>>]_vars

----------------------------------------------------------------------------
(* Properties of an install callback that ends with an error *)

\* C36: a handleCallback call that has answered with an error has written no
\* credential record; a failure of the delete of the state record, which
\* follows the put of the credentials, leaves no stored token behind the error.
C36_ErrorMeansNothingStored ==
  \A i \in CallIds :
    (cb[i].pc = "done" /\ cb[i].statusCode >= 400) => ~cb[i].wrote

----------------------------------------------------------------------------
(* Properties of the ends of the handlers *)

\* C37: every invocation of the auth router and of the product handler ends
\* with a response object that has a status code, for every path and method
\* and whether or not a collaborator fails.
C37_AlwaysAResponse ==
  ans # NoInvocation =>
    (ans.result.outcome = "response" /\ ans.result.statusCode \in 100..599)

----------------------------------------------------------------------------
(* Properties of overlapping runs *)

\* Whether Platform B holds the values of Platform A's product.
Holds(a, b, h, p) ==
  /\ a[h][p] # Absent /\ b[InstOf(h)][p] # Absent
  /\ SameFields(a[h][p], b[InstOf(h)][p])

----------------------------------------------------------------------------
(* Convergence of the scheduled runs *)

\* Every Platform-A product of every linked store has an equal counterpart on B.
AllLinkedInSync ==
  \A h \in Handles :
    (installationTable[h] # NoItem /\ installationTable[h].bwpInstallationId # NoInst)
      => InSync(h, installationTable[h].bwpInstallationId)

\* C39: if from some point on no call fails (Platform A stops changing once
\* its edits are used up), the repeated batch runs reach a state in which
\* every Platform-A product of every linked store has a counterpart on B with
\* equal title, description and price, and stay in such states for ever.
C39_RunsConverge ==
  <>[](faulty = {}) => <>[]AllLinkedInSync

\* A run has returned 200 after the last edit, having pushed, and every linked
\* store is in sync.
C39_Witness ==
  /\ bPc = "done" /\ bResp = 200 /\ faulty = {}
  /\ envChanges = MaxEnvChanges
  /\ Len(pushLog) > 0
  /\ \E h \in Handles : installationTable[h].bwpInstallationId # NoInst
  /\ AllLinkedInSync

----------------------------------------------------------------------------
(* Properties of the sign string *)

\* The entries of a signed request without its sign.
Unsigned(request) == SelectSeq(request, LAMBDA e : e[1] # "sign")

\* C40: no parameter set different from the one that was signed has the same
\* signature under the same secret, whatever its values contain: the sign
\* strings of two different parameter sets differ.
C40_SignStringIsInjective ==
  sg.pc = "signed" =>
    \A other \in CanonRequests :
      ObjectOf(other) # ObjectOf(Unsigned(sg.request))
        => generateSignOf(sg.kind, other, "secret") # ObjectOf(sg.request)["sign"]

====
